---------------------------- MODULE Spec2Model ----------------------------
(***************************************************************************)
(* typed-args: parseArgs(args, definitions, options)  (src/src/index.ts).  *)
(*                                                                         *)
(* Representation.                                                         *)
(*  - A JavaScript string is a sequence of one-character strings.  The    *)
(*    characters are U+0001 .. U+00FF but U+0060, and U+FEFF.             *)
(*  - A message is a sequence of text items: the literal parts of the     *)
(*    template are whole strings, the interpolated parts are characters.  *)
(*    The text of the message is the concatenation of its items.          *)
(*  - A JavaScript value is a tagged record: Null, Bool(b), a Number,     *)
(*    Str(s), Arr(a), Obj(kv), Fun(name).  undefined and null are both    *)
(*    Null (the code only tests them with == null / ??).                  *)
(*  - A Number is its sign, its significant decimal digits and its        *)
(*    decimal exponent, or an infinity.  Numerals of more than 15         *)
(*    significant digits are given no value.                              *)
(*  - ParsedDefinition.short is a string of exactly one character or      *)
(*    null; it is modelled as the one-character sequence or <<>>.         *)
(*  - minimist (a dependency, version 1.2.8) is modelled for flat keys:   *)
(*    a flag name with "." is given no value.                             *)
(*  - new RegExp(pattern) is modelled without backreferences, named       *)
(*    groups and \0: a pattern with one of them is given no value.        *)
(*  - An object is the sequence of its own properties in the order of     *)
(*    their creation.  A definitions object may have the own key          *)
(*    "__proto__" (as JSON.parse makes it): result[key] = t then sets the *)
(*    prototype of the result of parseDefinitions.                        *)
(*  - The messages of the TypeErrors are those of Node 16 and later.      *)
(***************************************************************************)
EXTENDS Integers, Sequences, FiniteSets, TLC

-----------------------------------------------------------------------------
(* Characters and strings *)

Digits == {"0", "1", "2", "3", "4", "5", "6", "7", "8", "9"}

Letters ==
  {"a", "b", "c", "d", "e", "f", "g", "h", "i", "j", "k", "l", "m",
   "n", "o", "p", "q", "r", "s", "t", "u", "v", "w", "x", "y", "z",
   "A", "B", "C", "D", "E", "F", "G", "H", "I", "J", "K", "L", "M",
   "N", "O", "P", "Q", "R", "S", "T", "U", "V", "W", "X", "Y", "Z"}

\* [a-zA-Z0-9]
AlNum == Letters \cup Digits

\* an expression without a value: what this module does not define
Undefined == CHOOSE x \in {} : TRUE

\* the characters U+0001 .. U+005F, by code; the control characters are
\* written raw, but for \t \n \f \r (U+0000 is left out of the strings of this
\* module)
LowChars ==
  <<"", "", "", "", "", "", "", "", "\t", "\n", "", "\f", "\r", "", "", "",
   "", "", "", "", "", "", "", "", "", "", "", "", "", "", "", " ",
   "!", "\"", "#", "$", "%", "&", "'", "(", ")", "*", "+", ",", "-", ".", "/", "0",
   "1", "2", "3", "4", "5", "6", "7", "8", "9", ":", ";", "<", "=", ">", "?", "@",
   "A", "B", "C", "D", "E", "F", "G", "H", "I", "J", "K", "L", "M", "N", "O", "P",
   "Q", "R", "S", "T", "U", "V", "W", "X", "Y", "Z", "[", "\\", "]", "^", "_">>

\* the characters U+0061 .. U+00FF, by code (U+0060 cannot be written in a
\* string of this module)
HighChars ==
  <<"a", "b", "c", "d", "e", "f", "g", "h", "i", "j", "k", "l", "m", "n", "o", "p",
   "q", "r", "s", "t", "u", "v", "w", "x", "y", "z", "{", "|", "}", "~", "", "",
   "", "", "", "", "", "", "", "", "", "", "", "", "", "", "", "",
   "", "", "", "", "", "", "", "", "", "", "", "", "", "", "", " ",
   "¡", "¢", "£", "¤", "¥", "¦", "§", "¨", "©", "ª", "«", "¬", "­", "®", "¯", "°",
   "±", "²", "³", "´", "µ", "¶", "·", "¸", "¹", "º", "»", "¼", "½", "¾", "¿", "À",
   "Á", "Â", "Ã", "Ä", "Å", "Æ", "Ç", "È", "É", "Ê", "Ë", "Ì", "Í", "Î", "Ï", "Ð",
   "Ñ", "Ò", "Ó", "Ô", "Õ", "Ö", "×", "Ø", "Ù", "Ú", "Û", "Ü", "Ý", "Þ", "ß", "à",
   "á", "â", "ã", "ä", "å", "æ", "ç", "è", "é", "ê", "ë", "ì", "í", "î", "ï", "ð",
   "ñ", "ò", "ó", "ô", "õ", "ö", "÷", "ø", "ù", "ú", "û", "ü", "ý", "þ", "ÿ">>

\* U+FEFF, written raw
ByteOrderMark == "﻿"

\* String.fromCharCode(n), for the characters a string of this module can hold
CharOfCode(n) ==
  CASE n \in 1..95 -> LowChars[n]
    [] n \in 97..255 -> HighChars[n - 96]
    [] n = 65279 -> ByteOrderMark

\* c.charCodeAt(0), for the same characters
CodeOfChar(c) ==
  CASE \E n \in 1..95 : LowChars[n] = c -> CHOOSE n \in 1..95 : LowChars[n] = c
    [] \E n \in 1..159 : HighChars[n] = c -> (CHOOSE n \in 1..159 : HighChars[n] = c) + 96
    [] c = ByteOrderMark -> 65279

\* the characters below U+0020 (but U+0000)
ControlChars == {LowChars[n] : n \in 1..31}

\* \s: U+0009 .. U+000D, U+0020, U+00A0, U+FEFF (U+000B, U+00A0 and U+FEFF
\* written raw).  \s also matches U+1680, U+2000 .. U+200A, U+2028, U+2029,
\* U+202F, U+205F and U+3000, which a string of this module cannot hold.
IsSpace(c) == c \in {" ", "\t", "\n", "\r", "\f", "", " ", "﻿"}

\* . (no s flag): any character but a line terminator (\n, \r, and U+2028,
\* U+2029, which a string of this module cannot hold)
IsDot(c) == c \notin {"\n", "\r"}

\* \W
IsNonWord(c) == c \notin (AlNum \cup {"_"})

DigitVal(c) ==
  CASE c = "0" -> 0 [] c = "1" -> 1 [] c = "2" -> 2 [] c = "3" -> 3
    [] c = "4" -> 4 [] c = "5" -> 5 [] c = "6" -> 6 [] c = "7" -> 7
    [] c = "8" -> 8 [] c = "9" -> 9

DigitChar(d) ==
  CASE d = 0 -> "0" [] d = 1 -> "1" [] d = 2 -> "2" [] d = 3 -> "3"
    [] d = 4 -> "4" [] d = 5 -> "5" [] d = 6 -> "6" [] d = 7 -> "7"
    [] d = 8 -> "8" [] d = 9 -> "9"

\* [0-9a-fA-F]
HexDigits == Digits \cup {"a", "b", "c", "d", "e", "f", "A", "B", "C", "D", "E", "F"}

HexVal(c) ==
  CASE c \in Digits -> DigitVal(c)
    [] c \in {"a", "A"} -> 10 [] c \in {"b", "B"} -> 11 [] c \in {"c", "C"} -> 12
    [] c \in {"d", "D"} -> 13 [] c \in {"e", "E"} -> 14 [] c \in {"f", "F"} -> 15

\* the hexadecimal digit of d, in lower case
HexChar(d) ==
  CASE d < 10 -> DigitChar(d)
    [] d = 10 -> "a" [] d = 11 -> "b" [] d = 12 -> "c"
    [] d = 13 -> "d" [] d = 14 -> "e" [] d = 15 -> "f"

\* s.slice(i - 1): the characters of s from position i (1-based) on
From(s, i) == IF i > Len(s) THEN <<>> ELSE SubSeq(s, i, Len(s))

\* whether p occurs in s at position i
At(s, i, p) ==
  /\ i >= 1
  /\ i + Len(p) - 1 <= Len(s)
  /\ \A k \in 1..Len(p) : s[i + k - 1] = p[k]

StartsWith(s, p) == At(s, 1, p)

\* whether p occurs somewhere in s (s.includes(p))
Contains(s, p) == \E i \in 1..(Len(s) + 1) : At(s, i, p)

\* the least position >= i whose character is not accepted by Skip, or Len(s) + 1
RECURSIVE SkipSpace(_, _)
SkipSpace(s, i) ==
  IF i <= Len(s) /\ IsSpace(s[i]) THEN SkipSpace(s, i + 1) ELSE i

RECURSIVE SkipAlNum(_, _)
SkipAlNum(s, i) ==
  IF i <= Len(s) /\ s[i] \in AlNum THEN SkipAlNum(s, i + 1) ELSE i

RECURSIVE SkipDigits(_, _)
SkipDigits(s, i) ==
  IF i <= Len(s) /\ s[i] \in Digits THEN SkipDigits(s, i + 1) ELSE i

\* s.replace(/\s+/g, "")
RECURSIVE StripSpace(_)
StripSpace(s) ==
  IF s = <<>> THEN <<>>
  ELSE IF IsSpace(Head(s)) THEN StripSpace(Tail(s))
  ELSE <<Head(s)>> \o StripSpace(Tail(s))

\* the value of a run of decimal digits
RECURSIVE DigitsToInt(_)
DigitsToInt(s) ==
  IF s = <<>> THEN 0
  ELSE 10 * DigitsToInt(SubSeq(s, 1, Len(s) - 1)) + DigitVal(s[Len(s)])

RECURSIVE NatToDigits(_)
NatToDigits(n) ==
  IF n < 10 THEN <<DigitChar(n)>>
  ELSE NatToDigits(n \div 10) \o <<DigitChar(n % 10)>>

\* ds from its first digit that is not 0 on
StripLeadingZeros(ds) ==
  IF \A k \in 1..Len(ds) : ds[k] = "0" THEN <<>>
  ELSE SubSeq(ds, CHOOSE k \in 1..Len(ds) : ds[k] # "0" /\ \A j \in 1..(k - 1) : ds[j] = "0",
              Len(ds))

\* ds up to its last digit that is not 0
StripTrailingZeros(ds) ==
  IF \A k \in 1..Len(ds) : ds[k] = "0" THEN <<>>
  ELSE SubSeq(ds, 1,
              CHOOSE k \in 1..Len(ds) : ds[k] # "0" /\ \A j \in (k + 1)..Len(ds) : ds[j] = "0")

\* n zeros
Zeros(n) == [k \in 1..n |-> "0"]

\* whether 0.a < 0.b, for runs of digits a and b that do not end in 0
RECURSIVE FractionLess(_, _)
FractionLess(a, b) ==
  IF b = <<>> THEN FALSE
  ELSE IF a = <<>> THEN TRUE
  ELSE IF Head(a) # Head(b) THEN DigitVal(Head(a)) < DigitVal(Head(b))
  ELSE FractionLess(Tail(a), Tail(b))

\* whether a < b, for numerals a and b without leading zeros
NumeralLess(a, b) == Len(a) < Len(b) \/ (Len(a) = Len(b) /\ FractionLess(a, b))

\* the key that names the prototype of an object
kProto == <<"_", "_", "p", "r", "o", "t", "o", "_", "_">>

\* the keys of the object parseDefinition returns
kShort == <<"s", "h", "o", "r", "t">>
kLong == <<"l", "o", "n", "g">>
kType == <<"t", "y", "p", "e">>
kRequired == <<"r", "e", "q", "u", "i", "r", "e", "d">>
kDefaultValue == <<"d", "e", "f", "a", "u", "l", "t", "V", "a", "l", "u", "e">>
kDescription == <<"d", "e", "s", "c", "r", "i", "p", "t", "i", "o", "n">>
kHelp == <<"h", "e", "l", "p">>

-----------------------------------------------------------------------------
(* JavaScript values *)

Null == [t |-> "null"]
Bool(b) == [t |-> "bool", b |-> b]
Str(s) == [t |-> "str", s |-> s]
Arr(a) == [t |-> "arr", a |-> a]
\* an object: its own properties [k, v] in the order of their creation
Obj(kv) == [t |-> "obj", kv |-> kv]
\* a function: the built-in method `name` of Object.prototype
Fun(name) == [t |-> "fun", name |-> name]

\* A Number is 0.d1 d2 ... dk x 10^n for its significant digits d1 .. dk
\* (digits: neither a leading nor a trailing zero, <<>> for zero) and its sign,
\* or an infinity.  The decimal numeral of at most 15 significant digits stands
\* for the double it rounds to: String() of that double gives the numeral back.
Zero(neg) == [t |-> "num", neg |-> neg, digits |-> <<>>, n |-> 0, inf |-> FALSE]
Infinity(neg) == [t |-> "num", neg |-> neg, digits |-> <<>>, n |-> 0, inf |-> TRUE]
Finite(neg, digits, n) == [t |-> "num", neg |-> neg, digits |-> digits, n |-> n, inf |-> FALSE]

\* the first digits of Number.MAX_VALUE = 1.7976931348623157e308, rounded up
MaxValueDigits ==
  <<"1", "7", "9", "7", "6", "9", "3", "1", "3", "4", "8", "6", "2", "3", "2">>

\* the first digits of half of Number.MIN_VALUE, 2^-1075 =
\* 2.47032822920623272...e-324, rounded down: every numeral below it is
\* rounded to zero
HalfMinValueDigits ==
  <<"2", "4", "7", "0", "3", "2", "8", "2", "2", "9", "2", "0", "6", "2", "3", "2", "7">>

\* the Number of the decimal numeral int.frac x 10^e (StringToNumber and the
\* number of JSON).  Not defined for a numeral of more than 15 significant
\* digits nor for one from 2.4703282292062327e-324 up to 1e-307: there the
\* double is not the numeral.
Decimal(neg, int, frac, e) ==
  LET Canonical(digits, n) ==
        IF digits = <<>> THEN Zero(neg)
        ELSE CASE n >= 310 -> Infinity(neg)
               [] n <= -324 -> Zero(neg)
               [] n = -323 /\ FractionLess(digits, HalfMinValueDigits) -> Zero(neg)
               [] Len(digits) <= 15 /\ n = 309 ->
                    IF FractionLess(digits, MaxValueDigits) THEN Finite(neg, digits, n)
                    ELSE Infinity(neg)
               [] Len(digits) <= 15 /\ n \in -306..308 -> Finite(neg, digits, n)
      \* Len(int) + e - skipped, skipped being the leading zeros: at 310 and
      \* above and at -324 and below the digits do not count, and the sum
      \* is not carried further
      Exponent(skipped) ==
        IF e >= 0 THEN (IF e - skipped >= 310 THEN e - skipped ELSE e - skipped + Len(int))
        ELSE (IF e + Len(int) <= -324 THEN e + Len(int) ELSE e + Len(int) - skipped)
      Leading(all, lead) ==
        Canonical(StripTrailingZeros(lead), Exponent(Len(all) - Len(lead)))
      All(all) == Leading(all, StripLeadingZeros(all))
  IN All(int \o frac)

\* the Number of the integer n
Num(n) == Decimal(n < 0, NatToDigits(IF n < 0 THEN 0 - n ELSE n), <<>>, 0)

\* 2 x 10^9.  A string has fewer than 2^30 characters (String::kMaxLength),
\* so the digits of a numeral cannot make up for an exponent this large
MaxExponentDigits == <<"2", "0", "0", "0", "0", "0", "0", "0", "0", "0">>

\* the value of the exponent part of a numeral, its digits being ds: from
\* 2 x 10^9 on every exponent gives zero or an infinity, as 2 x 10^9 does
ExponentOf(negative, ds) ==
  LET s == StripLeadingZeros(ds)
      v == IF NumeralLess(s, MaxExponentDigits) THEN DigitsToInt(s) ELSE 2000000000
  IN IF negative THEN 0 - v ELSE v

\* Number::toString(v), radix 10
NumberToString(v) ==
  LET k == Len(v.digits)
      n == v.n
      sign == IF v.neg THEN <<"-">> ELSE <<>>
      e == n - 1
      expo == <<"e", IF e < 0 THEN "-" ELSE "+">> \o NatToDigits(IF e < 0 THEN 0 - e ELSE e)
  IN IF v.inf THEN sign \o <<"I", "n", "f", "i", "n", "i", "t", "y">>
     ELSE IF k = 0 THEN <<"0">>
     ELSE sign \o
          (IF k <= n /\ n <= 21 THEN v.digits \o Zeros(n - k)
           ELSE IF 0 < n /\ n <= 21
             THEN SubSeq(v.digits, 1, n) \o <<".">> \o SubSeq(v.digits, n + 1, k)
           ELSE IF -6 < n /\ n <= 0 THEN <<"0", ".">> \o Zeros(0 - n) \o v.digits
           ELSE IF k = 1 THEN v.digits \o expo
           ELSE <<v.digits[1], ".">> \o From(v.digits, 2) \o expo)

IsNull(v) == v.t = "null"
IsArray(v) == v.t = "arr"

\* typeof v, for the values above
TypeOf(v) ==
  CASE v.t = "bool" -> "boolean"
    [] v.t = "num" -> "number"
    [] v.t = "str" -> "string"
    [] v.t = "fun" -> "function"
    [] OTHER -> "object"

HasKey(kv, k) == \E n \in 1..Len(kv) : kv[n].k = k

\* the own property k of an object whose properties are kv, Null standing for
\* undefined
Lookup(kv, k) ==
  IF HasKey(kv, k) THEN kv[CHOOSE n \in 1..Len(kv) : kv[n].k = k].v ELSE Null

\* obj[k] = v
Store(kv, k, v) ==
  IF HasKey(kv, k) THEN [n \in 1..Len(kv) |-> IF kv[n].k = k THEN [k |-> k, v |-> v] ELSE kv[n]]
  ELSE Append(kv, [k |-> k, v |-> v])

\* 2^32 - 1, the first integer that is no array index
MaxIndexBound == <<"4", "2", "9", "4", "9", "6", "7", "2", "9", "5">>

\* a canonical array index ("0", "7", "12", up to 2^32 - 2): such keys come
\* first in for-in
IsIndexKey(k) ==
  /\ Len(k) > 0
  /\ SkipDigits(k, 1) = Len(k) + 1
  /\ (k[1] # "0" \/ Len(k) = 1)
  /\ NumeralLess(k, MaxIndexBound)

\* the index keys of kv in ascending order
RECURSIVE SortedIndexKeys(_)
SortedIndexKeys(ks) ==
  IF ks = {} THEN <<>>
  ELSE LET m == CHOOSE k \in ks : \A o \in ks \ {k} : NumeralLess(k, o)
       IN <<m>> \o SortedIndexKeys(ks \ {m})

\* the keys ks of an object, given in the order of their creation, in the
\* order of for-in and of Object.keys: the array indices ascending, then the
\* other keys as created
OwnKeys(ks) ==
  SortedIndexKeys({ks[n] : n \in {m \in 1..Len(ks) : IsIndexKey(ks[m])}})
  \o SelectSeq(ks, LAMBDA k : ~IsIndexKey(k))

-----------------------------------------------------------------------------
(* Errors *)

SettingsError(m) == [kind |-> "SettingsError", message |-> m]
ValidationError(m) == [kind |-> "ValidationError", message |-> m]
PlainError(m) == [kind |-> "Error", message |-> m]
TypeError(m) == [kind |-> "TypeError", message |-> m]
NoError == [kind |-> "none", message |-> <<>>]

-----------------------------------------------------------------------------
(* JSON.parse and JSON.stringify *)

JsonFail == [ok |-> FALSE, v |-> Null, i |-> 0]
JsonOk(v, i) == [ok |-> TRUE, v |-> v, i |-> i]

IsJsonSpace(c) == c \in {" ", "\t", "\n", "\r"}

RECURSIVE SkipJsonSpace(_, _)
SkipJsonSpace(s, i) ==
  IF i <= Len(s) /\ IsJsonSpace(s[i]) THEN SkipJsonSpace(s, i + 1) ELSE i

\* the exponent part [eE][+-]?[0-9]+ of a number whose sign is neg and whose
\* digits are int and frac, read at position i
JsonExponent(s, i, neg, int, frac) ==
  LET signed == i + 1 <= Len(s) /\ s[i + 1] \in {"+", "-"}
      d == IF signed THEN i + 2 ELSE i + 1
      e == SkipDigits(s, d)
  IN IF e = d THEN JsonFail
     ELSE JsonOk(Decimal(neg, int, frac,
                         ExponentOf(signed /\ s[i + 1] = "-", SubSeq(s, d, e - 1))), e)

\* the fraction and exponent parts of a number whose sign is neg and whose
\* integer digits are int, read at position i
JsonFraction(s, i, neg, int) ==
  LET hasFrac == i <= Len(s) /\ s[i] = "."
      f == IF hasFrac THEN SkipDigits(s, i + 1) ELSE i
      frac == IF hasFrac /\ f > i + 1 THEN SubSeq(s, i + 1, f - 1) ELSE <<>>
  IN IF hasFrac /\ f = i + 1 THEN JsonFail
     ELSE IF f <= Len(s) /\ s[f] \in {"e", "E"} THEN JsonExponent(s, f, neg, int, frac)
     ELSE JsonOk(Decimal(neg, int, frac, 0), f)

\* number: -? (0 | [1-9][0-9]*) (\.[0-9]+)? ([eE][+-]?[0-9]+)?, read at position i
JsonNumber(s, i) ==
  LET neg == s[i] = "-"
      d == IF neg THEN i + 1 ELSE i
  IN IF d > Len(s) \/ s[d] \notin Digits THEN JsonFail
     ELSE LET e == IF s[d] = "0" THEN d + 1 ELSE SkipDigits(s, d)
          IN JsonFraction(s, e, neg, SubSeq(s, d, e - 1))

\* the character of the escape \c, c being one of " \ / b f n r t
JsonEscape(c) ==
  CASE c = "n" -> "\n" [] c = "t" -> "\t" [] c = "r" -> "\r"
    [] c = "f" -> "\f" [] c = "b" -> CharOfCode(8) [] OTHER -> c

\* the code of the four hexadecimal digits of s at position i
Hex4(s, i) ==
  4096 * HexVal(s[i]) + 256 * HexVal(s[i + 1]) + 16 * HexVal(s[i + 2]) + HexVal(s[i + 3])

\* the rest of a string whose opening quote has been read; acc is its text so far
RECURSIVE JsonString(_, _, _)
JsonString(s, i, acc) ==
  IF i > Len(s) THEN JsonFail
  ELSE IF s[i] = "\"" THEN JsonOk(Str(acc), i + 1)
  ELSE IF s[i] = "\\" THEN
    IF i + 1 <= Len(s) /\ s[i + 1] \in {"\"", "\\", "/", "b", "f", "n", "r", "t"}
      THEN JsonString(s, i + 2, Append(acc, JsonEscape(s[i + 1])))
    ELSE IF i + 5 <= Len(s) /\ s[i + 1] = "u" /\ \A k \in 2..5 : s[i + k] \in HexDigits
      THEN JsonString(s, i + 6, Append(acc, CharOfCode(Hex4(s, i + 2))))
    ELSE JsonFail
  ELSE IF s[i] \in ControlChars THEN JsonFail
  ELSE JsonString(s, i + 1, Append(acc, s[i]))

RECURSIVE JsonValue(_, _)
RECURSIVE JsonElements(_, _, _)
RECURSIVE JsonMembers(_, _, _)

\* a value, read at position i after optional white space
JsonValue(s, i) ==
  LET p == SkipJsonSpace(s, i)
  IN IF p > Len(s) THEN JsonFail
     ELSE IF At(s, p, <<"t", "r", "u", "e">>) THEN JsonOk(Bool(TRUE), p + 4)
     ELSE IF At(s, p, <<"f", "a", "l", "s", "e">>) THEN JsonOk(Bool(FALSE), p + 5)
     ELSE IF At(s, p, <<"n", "u", "l", "l">>) THEN JsonOk(Null, p + 4)
     ELSE IF s[p] = "-" \/ s[p] \in Digits THEN JsonNumber(s, p)
     ELSE IF s[p] = "\"" THEN JsonString(s, p + 1, <<>>)
     ELSE IF s[p] = "[" THEN
       LET q == SkipJsonSpace(s, p + 1)
       IN IF q <= Len(s) /\ s[q] = "]" THEN JsonOk(Arr(<<>>), q + 1)
          ELSE JsonElements(s, p + 1, <<>>)
     ELSE IF s[p] = "{" THEN
       LET q == SkipJsonSpace(s, p + 1)
       IN IF q <= Len(s) /\ s[q] = "}" THEN JsonOk(Obj(<<>>), q + 1)
          ELSE JsonMembers(s, p + 1, <<>>)
     ELSE JsonFail

\* the elements of a non-empty array, the next one read at position i
JsonElements(s, i, acc) ==
  LET r == JsonValue(s, i)
  IN IF ~r.ok THEN JsonFail
     ELSE LET q == SkipJsonSpace(s, r.i)
          IN IF q > Len(s) THEN JsonFail
             ELSE IF s[q] = "," THEN JsonElements(s, q + 1, Append(acc, r.v))
             ELSE IF s[q] = "]" THEN JsonOk(Arr(Append(acc, r.v)), q + 1)
             ELSE JsonFail

\* the value of the member whose name is k, read after the name at position i,
\* and the members after it; acc holds the members read so far
JsonMember(s, i, acc, k) ==
  LET c == SkipJsonSpace(s, i)
      r == IF c <= Len(s) /\ s[c] = ":" THEN JsonValue(s, c + 1) ELSE JsonFail
      q == IF r.ok THEN SkipJsonSpace(s, r.i) ELSE 0
  IN IF ~r.ok \/ q > Len(s) THEN JsonFail
     ELSE IF s[q] = "," THEN JsonMembers(s, q + 1, Store(acc, k, r.v))
     ELSE IF s[q] = "}" THEN JsonOk(Obj(Store(acc, k, r.v)), q + 1)
     ELSE JsonFail

\* the members of a non-empty object, the next one read at position i
JsonMembers(s, i, acc) ==
  LET p == SkipJsonSpace(s, i)
      k == IF p <= Len(s) /\ s[p] = "\"" THEN JsonString(s, p + 1, <<>>) ELSE JsonFail
  IN IF ~k.ok THEN JsonFail ELSE JsonMember(s, k.i, acc, k.v.s)

\* JSON.parse(s): [ok |-> FALSE] stands for the SyntaxError it throws
JsonParse(s) ==
  LET r == JsonValue(s, 1)
  IN IF r.ok /\ SkipJsonSpace(s, r.i) > Len(s) THEN r ELSE JsonFail

\* the text JSON.stringify writes for the character c of a string
QuoteChar(c) ==
  CASE c = "\"" -> <<"\\", "\"">>
    [] c = "\\" -> <<"\\", "\\">>
    [] c = "\n" -> <<"\\", "n">>
    [] c = "\t" -> <<"\\", "t">>
    [] c = "\r" -> <<"\\", "r">>
    [] c = "\f" -> <<"\\", "f">>
    [] c = CharOfCode(8) -> <<"\\", "b">>
    [] c \in ControlChars ->
         <<"\\", "u", "0", "0", HexChar(CodeOfChar(c) \div 16), HexChar(CodeOfChar(c) % 16)>>
    [] OTHER -> <<c>>

\* JSON.stringify(v) for the values a default can have
RECURSIVE JsonStringify(_)
RECURSIVE JsonStringifyItems(_)
RECURSIVE JsonQuote(_)
JsonQuote(s) ==
  IF s = <<>> THEN <<>> ELSE QuoteChar(Head(s)) \o JsonQuote(Tail(s))
JsonStringifyItems(a) ==
  IF a = <<>> THEN <<>>
  ELSE IF Len(a) = 1 THEN JsonStringify(a[1])
  ELSE JsonStringify(a[1]) \o <<",">> \o JsonStringifyItems(Tail(a))
JsonStringify(v) ==
  CASE v.t = "null" -> <<"n", "u", "l", "l">>
    [] v.t = "bool" -> IF v.b THEN <<"t", "r", "u", "e">> ELSE <<"f", "a", "l", "s", "e">>
    [] v.t = "num" -> IF v.inf THEN <<"n", "u", "l", "l">> ELSE NumberToString(v)
    [] v.t = "str" -> <<"\"">> \o JsonQuote(v.s) \o <<"\"">>
    [] v.t = "arr" -> <<"[">> \o JsonStringifyItems(v.a) \o <<"]">>

-----------------------------------------------------------------------------
(* Definition strings: definitionRegex and parseDefinition *)


defaultValueOf(type) ==
  CASE type = "boolean" -> Bool(FALSE)
    [] type = "number[]" -> Arr(<<>>)
    [] type = "number" -> Null
    [] type = "string[]" -> Arr(<<>>)
    [] type = "string" -> Null

\* isDefaultValueCorrectType without its checks: any decoded default passes
AnyDefaultValue(type, json) == TRUE

isDefaultValueCorrectType(type, json) ==
  CASE type = "boolean" -> TypeOf(json) = "boolean"
    [] type = "number[]" ->
         IsArray(json) /\ \A k \in 1..Len(json.a) : TypeOf(json.a[k]) = "number"
    [] type = "number" -> TypeOf(json) = "number"
    [] type = "string[]" ->
         IsArray(json) /\ \A k \in 1..Len(json.a) : TypeOf(json.a[k]) = "string"
    [] type = "string" -> TypeOf(json) = "string"

\* the `what` of typeMismatchOfDefaultValue
typeMismatchWhat(type) ==
  CASE type = "boolean" -> "a boolean"
    [] type = "number" -> "a number"
    [] type = "number[]" -> "an array of number"
    [] type = "string" -> "a string"
    [] type = "string[]" -> "an array of string"

typeMismatchOfDefaultValue(long, type, defaultValue) ==
  SettingsError(<<"The default value of ">> \o long \o <<" should be ", typeMismatchWhat(type), ": ">>
                \o defaultValue)

\* parseDefaultValue: the decoded value, or the SettingsError of a failed JSON.parse
parseDefaultValue(long, defaultValue) ==
  LET r == JsonParse(defaultValue)
  IN IF r.ok THEN [ok |-> TRUE, v |-> r.v, err |-> NoError]
     ELSE [ok |-> FALSE, v |-> Null,
           err |-> SettingsError(<<"Could not parse default value of ">> \o long \o <<": ">>
                                 \o defaultValue)]

\* /^(?:\s*-([a-zA-Z0-9])\s*,)?/ : the short name (<<>> when the group does not
\* take part) and the position after it
MatchShort(s) ==
  LET p == SkipSpace(s, 1)
      q == SkipSpace(s, p + 2)
  IN IF /\ p + 1 <= Len(s)
        /\ s[p] = "-"
        /\ s[p + 1] \in AlNum
        /\ q <= Len(s)
        /\ s[q] = ","
     THEN [short |-> <<s[p + 1]>>, i |-> q + 1]
     ELSE [short |-> <<>>, i |-> 1]

\* /\s*--([a-zA-Z0-9]+)/ at position i
MatchLong(s, i) ==
  LET p == SkipSpace(s, i)
      e == SkipAlNum(s, p + 2)
  IN IF At(s, p, <<"-", "-">>) /\ e > p + 2
     THEN [ok |-> TRUE, long |-> SubSeq(s, p + 2, e - 1), i |-> e]
     ELSE [ok |-> FALSE, long |-> <<>>, i |-> 0]

\* (?:\s*\[\s*\])? at position i: the position after it
MatchBrackets(s, i) ==
  LET b == SkipSpace(s, i)
      c == SkipSpace(s, b + 1)
  IN IF b <= Len(s) /\ s[b] = "[" /\ c <= Len(s) /\ s[c] = "]" THEN c + 1 ELSE i

\* /\s*:\s*(boolean|number(?:\s*\[\s*\])?|string(?:\s*\[\s*\])?)/ at position i
MatchType(s, i) ==
  LET p == SkipSpace(s, i)
      q == SkipSpace(s, p + 1)
  IN IF ~(p <= Len(s) /\ s[p] = ":") THEN [ok |-> FALSE, type |-> <<>>, i |-> 0]
     ELSE IF At(s, q, <<"b", "o", "o", "l", "e", "a", "n">>)
       THEN [ok |-> TRUE, type |-> SubSeq(s, q, q + 6), i |-> q + 7]
     ELSE IF At(s, q, <<"n", "u", "m", "b", "e", "r">>) \/ At(s, q, <<"s", "t", "r", "i", "n", "g">>)
       THEN LET e == MatchBrackets(s, q + 6)
            IN [ok |-> TRUE, type |-> SubSeq(s, q, e - 1), i |-> e]
     ELSE [ok |-> FALSE, type |-> <<>>, i |-> 0]

\* "(?:[^"\\]|\\.)*" after its opening quote, at position i: the position after
\* the closing quote, or 0 when the quoted string is not closed
RECURSIVE QuotedEnd(_, _)
QuotedEnd(s, i) ==
  IF i > Len(s) THEN 0
  ELSE IF s[i] = "\"" THEN i + 1
  ELSE IF s[i] = "\\" THEN
    IF i + 1 <= Len(s) /\ IsDot(s[i + 1]) THEN QuotedEnd(s, i + 2) ELSE 0
  ELSE QuotedEnd(s, i + 1)

RECURSIVE SkipPlain(_, _)
SkipPlain(s, i) ==
  IF i <= Len(s) /\ s[i] \notin {";", "\""} THEN SkipPlain(s, i + 1) ELSE i

\* ((?:[^;"]*(?:"(?:[^"\\]|\\.)*")?)*) at position i: the position after the capture
RECURSIVE DefaultEnd(_, _)
DefaultEnd(s, i) ==
  LET j == SkipPlain(s, i)
      k == IF j <= Len(s) /\ s[j] = "\"" THEN QuotedEnd(s, j + 1) ELSE 0
  IN IF k > 0 THEN DefaultEnd(s, k) ELSE j

\* /\s*(?:;\s*(.*))?$/ at position i; has = the description group took part
MatchDescription(s, i) ==
  LET p == SkipSpace(s, i)
      q == SkipSpace(s, p + 1)
  IN IF p > Len(s) THEN [ok |-> TRUE, has |-> FALSE, description |-> <<>>]
     ELSE IF s[p] = ";" /\ \A k \in q..Len(s) : IsDot(s[k])
       THEN [ok |-> TRUE, has |-> TRUE, description |-> From(s, q)]
     ELSE [ok |-> FALSE, has |-> FALSE, description |-> <<>>]

NoMatch ==
  [ok |-> FALSE, short |-> <<>>, long |-> <<>>, type |-> <<>>, required |-> FALSE,
   hasDefault |-> FALSE, defaultValue |-> <<>>, description |-> <<>>]

\* the match when its last part, the description part, is md
WithDescription(m, md) == IF md.ok THEN [m EXCEPT !.description = md.description] ELSE NoMatch

\* the alternative \s*=\s*(...) whose capture starts at q and ends before e
MatchDefault(s, m, q, e) ==
  WithDescription([m EXCEPT !.hasDefault = TRUE,
                            !.defaultValue = IF e > q THEN SubSeq(s, q, e - 1) ELSE <<>>],
                  MatchDescription(s, e))

\* (?:\s*(!)|\s*=\s*(...))? and the description part, after the type part that
\* ends before i; p is the first position after i that holds no white space
MatchClause(s, m, i, p) ==
  IF p <= Len(s) /\ s[p] = "!"
    THEN WithDescription([m EXCEPT !.required = TRUE], MatchDescription(s, p + 1))
  ELSE IF p <= Len(s) /\ s[p] = "="
    THEN MatchDefault(s, m, SkipSpace(s, p + 1), DefaultEnd(s, SkipSpace(s, p + 1)))
  ELSE WithDescription(m, MatchDescription(s, i))

MatchAfterType(s, sh, lo, ty) ==
  IF ~ty.ok THEN NoMatch
  ELSE MatchClause(s,
                   [ok |-> TRUE, short |-> sh.short, long |-> lo.long, type |-> ty.type,
                    required |-> FALSE, hasDefault |-> FALSE, defaultValue |-> <<>>,
                    description |-> <<>>],
                   ty.i, SkipSpace(s, ty.i))

MatchAfterLong(s, sh, lo) ==
  IF ~lo.ok THEN NoMatch ELSE MatchAfterType(s, sh, lo, MatchType(s, lo.i))

MatchAfterShort(s, sh) == MatchAfterLong(s, sh, MatchLong(s, sh.i))

\* definitionRegex.exec(s): the groups _short, _long, _type, _required (as a
\* boolean), _defaultValue (with hasDefault = it is not undefined), _description
\* ("" for undefined, which is what parseDefinition makes of it)
definitionRegex(s) == MatchAfterShort(s, MatchShort(s))

\* the switch of parseDefinition on _type.replace(/\s+/g, "")
TypeName(t) ==
  CASE t = <<"b", "o", "o", "l", "e", "a", "n">> -> "boolean"
    [] t = <<"n", "u", "m", "b", "e", "r", "[", "]">> -> "number[]"
    [] t = <<"n", "u", "m", "b", "e", "r">> -> "number"
    [] t = <<"s", "t", "r", "i", "n", "g", "[", "]">> -> "string[]"
    [] t = <<"s", "t", "r", "i", "n", "g">> -> "string"
    [] OTHER -> "unknown"

NoDef ==
  [short |-> <<>>, long |-> <<>>, type |-> "boolean", required |-> FALSE,
   defaultValue |-> Null, description |-> <<>>]

DefOk(d) == [ok |-> TRUE, def |-> d, err |-> NoError]
DefErr(e) == [ok |-> FALSE, def |-> NoDef, err |-> e]

\* the error thrown for a string that definitionRegex does not match
SyntaxErrorOf(s) == PlainError(<<"Syntax Error: ">> \o s)

\* the definition returned for the match result of type `type` whose default
\* value is defaultValue
MakeDefinition(result, type, defaultValue) ==
  DefOk([short |-> result.short,
         long |-> result.long,
         type |-> type,
         required |-> result.required,
         defaultValue |-> defaultValue,
         description |-> result.description])

\* if (_defaultValue != null) { ... }, decoded being parseDefaultValue(long, _defaultValue)
WithDefault(result, type, decoded) ==
  IF ~decoded.ok THEN DefErr(decoded.err)
  ELSE IF ~isDefaultValueCorrectType(type, decoded.v)
    THEN DefErr(typeMismatchOfDefaultValue(result.long, type, result.defaultValue))
  ELSE MakeDefinition(result, type, decoded.v)

\* parseDefinition after the switch on the type
ParseTyped(result, type) ==
  IF type = "unknown" THEN DefErr(SettingsError(<<"Unknown type: ">> \o result.type))
  ELSE IF result.hasDefault
    THEN WithDefault(result, type, parseDefaultValue(result.long, result.defaultValue))
  ELSE MakeDefinition(result, type, defaultValueOf(type))

\* parseDefinition after definitionRegex.exec(s)
ParseMatched(s, result) ==
  IF ~result.ok THEN DefErr(SyntaxErrorOf(s))
  ELSE ParseTyped(result, TypeName(StripSpace(result.type)))

parseDefinition(s) == ParseMatched(s, definitionRegex(s))

\* the duplicate report cut to the first duplicate found
FirstOnly(names) == names[1]

\* dups.join(", ")
RECURSIVE JoinComma(_)
JoinComma(names) ==
  IF names = <<>> THEN <<>>
  ELSE IF Len(names) = 1 THEN names[1]
  ELSE names[1] \o <<", ">> \o JoinComma(Tail(names))

\* the dups of parseDefinitions after the definitions ds (parsed, in order),
\* keys being the names seen before them
RECURSIVE CollectDups(_, _)
CollectDups(ds, keys) ==
  IF ds = <<>> THEN <<>>
  ELSE LET t == Head(ds).def
           d1 == IF t.short # <<>> /\ t.short \in keys THEN <<t.short>> ELSE <<>>
           k1 == IF t.short # <<>> THEN keys \cup {t.short} ELSE keys
           d2 == IF t.long \in k1 THEN <<t.long>> ELSE <<>>
       IN d1 \o d2 \o CollectDups(Tail(ds), k1 \cup {t.long})

\* the properties of types (a sequence of [key, s] in the order in which the
\* caller's object got them) in the order of for (const key in types)
ForInTypes(types) ==
  LET Ordered(ks) ==
        [n \in 1..Len(ks) |-> types[CHOOSE m \in 1..Len(types) : types[m].key = ks[n]]]
  IN Ordered(OwnKeys([n \in 1..Len(types) |-> types[n].key]))

\* the loop of parseDefinitions over types, up to the first throw.  all: every
\* parsed definition; defs: the own properties of result, as [key, def, own];
\* proto: the prototype of result, <<t>> once result["__proto__"] = t has set
\* it, else <<>>
RECURSIVE ParseEach(_)
ParseRest(key, t, rest) ==
  IF ~rest.ok THEN rest
  ELSE IF key = kProto
    THEN [ok |-> TRUE, all |-> <<[key |-> key, def |-> t.def]>> \o rest.all,
          defs |-> rest.defs, proto |-> <<t.def>>, err |-> NoError]
  ELSE [ok |-> TRUE, all |-> <<[key |-> key, def |-> t.def]>> \o rest.all,
        defs |-> <<[key |-> key, def |-> t.def, own |-> TRUE]>> \o rest.defs,
        proto |-> rest.proto, err |-> NoError]
ParseNext(types, t) ==
  IF ~t.ok THEN [ok |-> FALSE, all |-> <<>>, defs |-> <<>>, proto |-> <<>>, err |-> t.err]
  ELSE ParseRest(Head(types).key, t, ParseEach(Tail(types)))
ParseEach(types) ==
  IF types = <<>> THEN [ok |-> TRUE, all |-> <<>>, defs |-> <<>>, proto |-> <<>>, err |-> NoError]
  ELSE ParseNext(types, parseDefinition(Head(types).s))

\* if (dups.length > 0) throw ...; return result
CheckDups(each, dups) ==
  IF Len(dups) > 0
  THEN [ok |-> FALSE, all |-> <<>>, defs |-> <<>>, proto |-> <<>>,
        err |-> SettingsError(<<"Duplicated keys found: ">> \o JoinComma(dups))]
  ELSE each

ParsedOrDups(each) == IF ~each.ok THEN each ELSE CheckDups(each, CollectDups(each.all, {}))

parseDefinitions(types) == ParsedOrDups(ParseEach(ForInTypes(types)))

\* the text of a type
TypeText(type) ==
  CASE type = "boolean" -> <<"b", "o", "o", "l", "e", "a", "n">>
    [] type = "number[]" -> <<"n", "u", "m", "b", "e", "r", "[", "]">>
    [] type = "number" -> <<"n", "u", "m", "b", "e", "r">>
    [] type = "string[]" -> <<"s", "t", "r", "i", "n", "g", "[", "]">>
    [] type = "string" -> <<"s", "t", "r", "i", "n", "g">>

\* return { short, long, type, required, defaultValue, description }: the keys
\* of a parsed definition, in the order of their creation
DefinitionKeys == <<kShort, kLong, kType, kRequired, kDefaultValue, kDescription>>

\* t[key] for a parsed definition t and one of its keys
FieldOf(t, key) ==
  CASE key = kShort -> IF t.short = <<>> THEN Null ELSE Str(t.short)
    [] key = kLong -> Str(t.long)
    [] key = kType -> Str(TypeText(t.type))
    [] key = kRequired -> Bool(t.required)
    [] key = kDefaultValue -> t.defaultValue
    [] key = kDescription -> Str(t.description)

\* what for (const key in defs) visits, p being what parseDefinitions returned:
\* the own properties of defs, then the properties of its prototype that no
\* own key hides.  An entry is [key, def, own]: defs[key] is def when own,
\* and FieldOf(def, key), def being the prototype, when not
ForInDefs(p) ==
  LET Inherited(ks) == [n \in 1..Len(ks) |-> [key |-> ks[n], def |-> p.proto[1], own |-> FALSE]]
  IN p.defs \o (IF p.proto = <<>> THEN <<>>
                ELSE Inherited(SelectSeq(DefinitionKeys,
                                         LAMBDA k : \A n \in 1..Len(p.defs) : p.defs[n].key # k)))

\* defs[key] of an entry of ForInDefs is null
IsNullEntry(entry) == ~entry.own /\ IsNull(FieldOf(entry.def, entry.key))

\* const { short, long, type, required, defaultValue } = defs[key], and
\* d.description, when defs[key] is a string, a boolean, a number or an array:
\* every variable is undefined.  undefined is "undefined" where the code makes
\* a text or a property key of it, null where it tests == null, false where
\* it tests truth, and the type is none of the five
UndefinedFields ==
  [short |-> <<>>, long |-> <<"u", "n", "d", "e", "f", "i", "n", "e", "d">>, type |-> "undefined",
   required |-> FALSE, defaultValue |-> Null,
   description |-> <<"u", "n", "d", "e", "f", "i", "n", "e", "d">>]

\* the fields read from defs[key], for an entry of ForInDefs that is not null
Fields(entry) == IF entry.own THEN entry.def ELSE UndefinedFields

-----------------------------------------------------------------------------
(* minimist(args, {boolean: bools, "--": true}), the tokenizer parseArgs    *)
(* calls (minimist 1.2.8).  argv is [und, kv, crashed, message]: und is     *)
(* argv._, kv the other keys in insertion order as [k, v], crashed a        *)
(* TypeError thrown inside minimist, message its message.                   *)

\* /^0x[0-9a-f]+$/i.test(x)
IsHexNumeral(x) ==
  /\ Len(x) >= 3
  /\ x[1] = "0"
  /\ x[2] \in {"x", "X"}
  /\ \A k \in 3..Len(x) : x[k] \in HexDigits

\* /^[-+]?(?:\d+(?:\.\d*)?|\.\d+)(e[-+]?\d+)?$/ on x: whether it matches, and
\* the sign, the integer digits, the fraction digits and the exponent of x
DecimalParts(x) ==
  LET Parts(p, q, r, t, u, hasE) ==
        [ok |-> /\ (q > p \/ r > q + 1)
                /\ (hasE => u > t)
                /\ u = Len(x) + 1,
         neg |-> Len(x) > 0 /\ x[1] = "-",
         int |-> SubSeq(x, p, q - 1),
         frac |-> IF r > q THEN SubSeq(x, q + 1, r - 1) ELSE <<>>,
         e |-> IF hasE THEN ExponentOf(x[t - 1] = "-", SubSeq(x, t, u - 1)) ELSE 0]
      Exponent(p, q, r, t, hasE) ==
        Parts(p, q, r, t, IF hasE THEN SkipDigits(x, t) ELSE r, hasE)
      Mark(p, q, r, hasE) ==
        Exponent(p, q, r,
                 IF hasE /\ r + 1 <= Len(x) /\ x[r + 1] \in {"-", "+"} THEN r + 2 ELSE r + 1,
                 hasE)
      Fraction(p, q, r) == Mark(p, q, r, r <= Len(x) /\ x[r] = "e")
      Integer(p, q) ==
        Fraction(p, q, IF q <= Len(x) /\ x[q] = "." THEN SkipDigits(x, q + 1) ELSE q)
      Sign(p) == Integer(p, SkipDigits(x, p))
  IN Sign(IF Len(x) > 0 /\ x[1] \in {"-", "+"} THEN 2 ELSE 1)

\* isNumber(x) for a string x
isNumber(x) == IsHexNumeral(x) \/ DecimalParts(x).ok

\* the decimal digits of 16 * m + carry, ds being the decimal digits of m
RECURSIVE TimesSixteen(_, _)
TimesSixteen(ds, carry) ==
  IF ds = <<>> THEN (IF carry = 0 THEN <<>> ELSE NatToDigits(carry))
  ELSE LET t == 16 * DigitVal(ds[Len(ds)]) + carry
       IN TimesSixteen(SubSeq(ds, 1, Len(ds) - 1), t \div 10) \o <<DigitChar(t % 10)>>

\* the decimal digits of the hexadecimal numeral h, acc being those of the
\* digits read so far
RECURSIVE HexToDigits(_, _)
HexToDigits(h, acc) ==
  IF h = <<>> THEN acc ELSE HexToDigits(Tail(h), TimesSixteen(acc, HexVal(Head(h))))

\* Number(x) for a string x that isNumber accepts
ToNumber(x) ==
  LET Of(d) == Decimal(d.neg, d.int, d.frac, d.e)
  IN IF IsHexNumeral(x) THEN Decimal(FALSE, HexToDigits(From(x, 3), <<>>), <<>>, 0)
     ELSE Of(DecimalParts(x))

\* the names of the properties of Object.prototype: flags.bools[k], aliases[k]
\* and argv[k] are not undefined for them
ObjectMethodNames ==
  {<<"c", "o", "n", "s", "t", "r", "u", "c", "t", "o", "r">>,
   <<"h", "a", "s", "O", "w", "n", "P", "r", "o", "p", "e", "r", "t", "y">>,
   <<"i", "s", "P", "r", "o", "t", "o", "t", "y", "p", "e", "O", "f">>,
   <<"p", "r", "o", "p", "e", "r", "t", "y", "I", "s", "E", "n", "u", "m", "e", "r", "a", "b", "l", "e">>,
   <<"t", "o", "L", "o", "c", "a", "l", "e", "S", "t", "r", "i", "n", "g">>,
   <<"t", "o", "S", "t", "r", "i", "n", "g">>,
   <<"v", "a", "l", "u", "e", "O", "f">>,
   <<"_", "_", "d", "e", "f", "i", "n", "e", "G", "e", "t", "t", "e", "r", "_", "_">>,
   <<"_", "_", "d", "e", "f", "i", "n", "e", "S", "e", "t", "t", "e", "r", "_", "_">>,
   <<"_", "_", "l", "o", "o", "k", "u", "p", "G", "e", "t", "t", "e", "r", "_", "_">>,
   <<"_", "_", "l", "o", "o", "k", "u", "p", "S", "e", "t", "t", "e", "r", "_", "_">>}

ObjectPrototypeNames == ObjectMethodNames \cup {<<"_", "_", "p", "r", "o", "t", "o", "_", "_">>}

\* obj[k] for a plain object whose own properties are kv: the own property,
\* else the one inherited from Object.prototype, else Null for undefined
GetProperty(kv, k) ==
  IF HasKey(kv, k) THEN Lookup(kv, k)
  ELSE IF k \in ObjectMethodNames THEN Fun(k)
  ELSE IF k \in ObjectPrototypeNames THEN Obj(<<>>)
  ELSE Null

\* flags.bools[key], bools being the own keys of flags.bools
IsBoolKey(bools, key) == key \in bools \/ key \in ObjectPrototypeNames

\* setKey(argv, key.split("."), value) for a key that is no property of
\* Object.prototype.  argv._ is an array from the start, so the key "_" pushes
\* to it; argv["--"] is overwritten with notFlags when minimist returns, and
\* is not kept here.  A key with a "." sets a nested object: not defined here.
setKey(argv, key, value, bools) ==
  LET cur == Lookup(argv.kv, key)
  IN IF Contains(key, <<".">>) THEN Undefined
     ELSE IF key = <<"_">> THEN [argv EXCEPT !.und = Append(argv.und, value)]
     ELSE IF key = <<"-", "-">> THEN argv
     ELSE IF ~HasKey(argv.kv, key) \/ key \in bools \/ TypeOf(cur) = "boolean"
       THEN [argv EXCEPT !.kv = Store(argv.kv, key, value)]
     ELSE IF IsArray(cur)
       THEN [argv EXCEPT !.kv = Store(argv.kv, key, Arr(Append(cur.a, value)))]
     ELSE [argv EXCEPT !.kv = Store(argv.kv, key, Arr(<<cur, value>>))]

\* a TypeError thrown inside minimist
Crash(argv, message) == [argv EXCEPT !.crashed = TRUE, !.message = <<message>>]

\* setArg(key, val): a number-like string becomes a number.  For a key that is
\* a property of Object.prototype, aliases[key] is not an array and
\* (aliases[key] || []).forEach throws.  Nothing is set after a throw.
setArg(argv, key, val, bools) ==
  IF argv.crashed THEN argv
  ELSE IF key \in ObjectPrototypeNames
    THEN Crash(argv, "(aliases[key] || []).forEach is not a function")
  ELSE setKey(argv, key, IF val.t = "str" /\ isNumber(val.s) THEN ToNumber(val.s) ELSE val, bools)

\* the maximal run of characters that . matches, from position i
RECURSIVE DotRunEnd(_, _)
DotRunEnd(s, i) == IF i <= Len(s) /\ IsDot(s[i]) THEN DotRunEnd(s, i + 1) ELSE i

FirstEq(s, i) ==
  IF \E p \in i..Len(s) : s[p] = "="
  THEN CHOOSE p \in i..Len(s) : s[p] = "=" /\ \A k \in i..(p - 1) : s[k] # "="
  ELSE 0

\* /^--.+=/.test(arg)
IsLongEq(arg) ==
  /\ StartsWith(arg, <<"-", "-">>)
  /\ \E p \in 4..Len(arg) : arg[p] = "=" /\ \A k \in 3..(p - 1) : IsDot(arg[k])

\* /^--no-.+/.test(arg)
IsLongNo(arg) == StartsWith(arg, <<"-", "-", "n", "o", "-">>) /\ Len(arg) >= 6 /\ IsDot(arg[6])

\* /^--.+/.test(arg)
IsLong(arg) == StartsWith(arg, <<"-", "-">>) /\ Len(arg) >= 3 /\ IsDot(arg[3])

\* /^-[^-]+/.test(arg)
IsShort(arg) == Len(arg) >= 2 /\ arg[1] = "-" /\ arg[2] # "-"

\* /^(true|false)$/.test(x)
IsTrueFalse(x) == x = <<"t", "r", "u", "e">> \/ x = <<"f", "a", "l", "s", "e">>

\* /-?\d+(\.\d*)?(e-?\d+)?$/.test(x)
EndsNumeric(x) ==
  /\ Len(x) > 0
  /\ \/ x[Len(x)] \in Digits
     \/ x[Len(x)] = "." /\ Len(x) >= 2 /\ x[Len(x) - 1] \in Digits

\* the loop over the letters of a short-flag token arg, at letter j (1-based:
\* the letter is arg[j + 1]); the result is [argv, broken]
RECURSIVE ShortLetters(_, _, _, _)
ShortLetters(arg, j, argv, bools) ==
  IF j + 1 > Len(arg) - 1 THEN [argv |-> argv, broken |-> FALSE]
  ELSE LET letter == <<arg[j + 1]>>
           next == From(arg, j + 2)
       IN IF next = <<"-">>
            THEN ShortLetters(arg, j + 1, setArg(argv, letter, Str(next), bools), bools)
          ELSE IF arg[j + 1] \in Letters /\ next # <<>> /\ next[1] = "="
            THEN [argv |-> setArg(argv, letter, Str(Tail(next)), bools), broken |-> TRUE]
          ELSE IF arg[j + 1] \in Letters /\ EndsNumeric(next)
            THEN [argv |-> setArg(argv, letter, Str(next), bools), broken |-> TRUE]
          ELSE IF j + 2 <= Len(arg) - 1 /\ IsNonWord(arg[j + 2])
            THEN [argv |-> setArg(argv, letter, Str(next), bools), broken |-> TRUE]
          ELSE ShortLetters(arg, j + 1, setArg(argv, letter, Bool(TRUE), bools), bools)

\* /^(-|--)[^-]/.test(x)
IsFlagLike(x) ==
  \/ Len(x) >= 2 /\ x[1] = "-" /\ x[2] # "-"
  \/ Len(x) >= 3 /\ x[1] = "-" /\ x[2] = "-" /\ x[3] # "-"

\* the main loop of minimist over args (the tokens before the first "--"), at i
RECURSIVE MinimistLoop(_, _, _, _)
MinimistLoop(args, i, argv, bools) ==
  IF i > Len(args) \/ argv.crashed THEN argv
  ELSE
    LET arg == args[i]
        hasNext == i + 1 <= Len(args)
        next == IF hasNext THEN args[i + 1] ELSE <<>>
    IN IF IsLongEq(arg) THEN
         LET e == FirstEq(arg, 3)
             key == SubSeq(arg, 3, e - 1)
             text == From(arg, e + 1)
             value == IF IsBoolKey(bools, key) THEN Bool(text # <<"f", "a", "l", "s", "e">>)
                      ELSE Str(text)
         IN IF e = 3 THEN Crash(argv, "Cannot read properties of null (reading '1')")
            ELSE MinimistLoop(args, i + 1, setArg(argv, key, value, bools), bools)
       ELSE IF IsLongNo(arg) THEN
         MinimistLoop(args, i + 1,
                      setArg(argv, SubSeq(arg, 6, DotRunEnd(arg, 6) - 1), Bool(FALSE), bools), bools)
       ELSE IF IsLong(arg) THEN
         LET key == SubSeq(arg, 3, DotRunEnd(arg, 3) - 1)
         IN IF hasNext /\ ~IsFlagLike(next) /\ ~IsBoolKey(bools, key)
              THEN MinimistLoop(args, i + 2, setArg(argv, key, Str(next), bools), bools)
            ELSE IF hasNext /\ IsTrueFalse(next)
              THEN MinimistLoop(args, i + 2,
                                setArg(argv, key, Bool(next = <<"t", "r", "u", "e">>), bools), bools)
            ELSE MinimistLoop(args, i + 1, setArg(argv, key, Bool(TRUE), bools), bools)
       ELSE IF IsShort(arg) THEN
         LET Last(ls, key) ==
               IF ls.broken \/ key = <<"-">>
                 THEN MinimistLoop(args, i + 1, ls.argv, bools)
               ELSE IF hasNext /\ next # <<>> /\ ~IsFlagLike(next) /\ ~IsBoolKey(bools, key)
                 THEN MinimistLoop(args, i + 2, setArg(ls.argv, key, Str(next), bools), bools)
               ELSE IF hasNext /\ IsTrueFalse(next)
                 THEN MinimistLoop(args, i + 2,
                                   setArg(ls.argv, key, Bool(next = <<"t", "r", "u", "e">>), bools),
                                   bools)
               ELSE MinimistLoop(args, i + 1, setArg(ls.argv, key, Bool(TRUE), bools), bools)
         IN Last(ShortLetters(arg, 1, argv, bools), <<arg[Len(arg)]>>)
       ELSE
         MinimistLoop(args, i + 1,
                      [argv EXCEPT !.und = Append(argv.und,
                                                  IF isNumber(arg) THEN ToNumber(arg) ELSE Str(arg))],
                      bools)

\* args.indexOf("--"), 1-based, 0 when absent
IndexOfDashDash(args) ==
  IF \E i \in 1..Len(args) : args[i] = <<"-", "-">>
  THEN CHOOSE i \in 1..Len(args) : args[i] = <<"-", "-">> /\ \A k \in 1..(i - 1) : args[k] # <<"-", "-">>
  ELSE 0

\* args.slice(0, args.indexOf("--")), or args when there is no "--"
BeforeDashDash(args) ==
  LET d == IndexOfDashDash(args)
  IN IF d = 0 THEN args ELSE IF d = 1 THEN <<>> ELSE SubSeq(args, 1, d - 1)

\* notFlags: args.slice(args.indexOf("--") + 1), or [] when there is no "--"
AfterDashDash(args) ==
  LET d == IndexOfDashDash(args)
  IN IF d = 0 THEN <<>> ELSE From(args, d + 1)

\* every boolean key starts as false, in the order of opts.boolean
RECURSIVE InitBools(_, _, _)
InitBools(boolList, argv, bools) ==
  IF boolList = <<>> THEN argv
  ELSE InitBools(Tail(boolList), setArg(argv, Head(boolList), Bool(FALSE), bools), bools)

\* minimist(args, {boolean: boolList, "--": true}): [und, kv, crashed, rest]
minimist(args, boolList) ==
  LET Result(argv) ==
        [und |-> argv.und, kv |-> argv.kv, crashed |-> argv.crashed, message |-> argv.message,
         rest |-> AfterDashDash(args)]
      Loop(bools) ==
        Result(MinimistLoop(BeforeDashDash(args), 1,
                            InitBools(boolList,
                                      [und |-> <<>>, kv |-> <<>>, crashed |-> FALSE,
                                       message |-> <<>>],
                                      bools),
                            bools))
  IN Loop({boolList[n] : n \in 1..Len(boolList)})

-----------------------------------------------------------------------------
(* validate *)



collectValues(longValue, shortValue) ==
  IF IsNull(longValue) THEN shortValue
  ELSE IF IsNull(shortValue) THEN longValue
  ELSE Arr((IF IsArray(longValue) THEN longValue.a ELSE <<longValue>>)
           \o (IF IsArray(shortValue) THEN shortValue.a ELSE <<shortValue>>))

\* the first lines of the loop body of validate for a boolean definition:
\* parsed[short] and parsed[long] are set to null when they are false
ClearFalse(kv, d) ==
  LET k1 == IF d.short # <<>> /\ GetProperty(kv, d.short) = Bool(FALSE)
            THEN Store(kv, d.short, Null) ELSE kv
  IN IF GetProperty(k1, d.long) = Bool(FALSE) THEN Store(k1, d.long, Null) ELSE k1

shortNameOf(d) == IF d.short # <<>> THEN <<"-">> \o d.short ELSE <<"null">>
longNameOf(d) == <<"-", "-">> \o d.long


\* `${shortName != null ? shortName + " or " : ""}${longName} is required`
RequiredMessage(d) ==
  (IF d.short # <<>> THEN shortNameOf(d) \o <<" or ">> ELSE <<>>)
  \o longNameOf(d) \o <<" is required">>

\* value[i] = String(v) for the numbers of value
StringifyNumbers(a) ==
  [n \in 1..Len(a) |-> IF TypeOf(a[n]) = "number" THEN Str(NumberToString(a[n])) ELSE a[n]]

KeyOk(v) == [ok |-> TRUE, value |-> v, err |-> NoError]
KeyErr(m) == [ok |-> FALSE, value |-> Null, err |-> ValidationError(m)]

\* the type and arity checks of validate (the if / else-if chain on type) for
\* the collected value, found under foundName
CheckType(type, required, value, foundName, d) ==
  LET items == IF IsArray(value) THEN value.a ELSE <<value>>
  IN IF IsNull(value) THEN
       IF required THEN KeyErr(RequiredMessage(d)) ELSE KeyOk(value)
     ELSE IF type = "boolean" THEN
       IF IsArray(value) THEN KeyErr(foundName \o <<" should not have multiple values">>)
       ELSE IF TypeOf(value) # "boolean" THEN KeyErr(foundName \o <<" should be a boolean">>)
       ELSE KeyOk(value)
     ELSE IF type = "number" THEN
       IF IsArray(value) THEN KeyErr(foundName \o <<" should not have multiple values">>)
       ELSE IF TypeOf(value) # "number" THEN KeyErr(foundName \o <<" should be a number">>)
       ELSE KeyOk(value)
     ELSE IF type = "number[]" THEN
       IF \E n \in 1..Len(items) : TypeOf(items[n]) # "number"
       THEN KeyErr(<<"All value of ">> \o foundName \o <<" should be a number">>)
       ELSE KeyOk(Arr(items))
     ELSE IF type = "string" THEN
       IF IsArray(value) THEN KeyErr(foundName \o <<" should not have multiple values">>)
       ELSE IF TypeOf(value) = "string" THEN KeyOk(value)
       ELSE IF TypeOf(value) = "number" THEN KeyOk(Str(NumberToString(value)))
       ELSE KeyErr(foundName \o <<" should be a string">>)
     ELSE IF type = "string[]" THEN
       IF \E n \in 1..Len(items) : TypeOf(items[n]) \notin {"string", "number"}
       THEN KeyErr(<<"All value of ">> \o foundName \o <<" should be a string">>)
       ELSE KeyOk(Arr(StringifyNumbers(items)))
     ELSE KeyOk(value)

\* one iteration of the loop of validate over defs: the value of the key or the
\* ValidationError thrown, kv being parsed after ClearFalse
ValidateKey(d, kv) ==
  LET Found(longValue, collected) ==
        CheckType(d.type, d.required,
                  IF IsNull(collected) THEN d.defaultValue ELSE collected,
                  IF ~IsNull(longValue) THEN longNameOf(d) ELSE shortNameOf(d),
                  d)
      Collect(longValue, shortValue) == Found(longValue, collectValues(longValue, shortValue))
  IN Collect(GetProperty(kv, d.long), IF d.short # <<>> THEN GetProperty(kv, d.short) ELSE Null)

\* the elements of an array after the loop of the string[] branch: the numbers
\* are rewritten as strings up to the element for which the loop throws
RECURSIVE StringifyUntilThrow(_)
StringifyUntilThrow(a) ==
  IF a = <<>> THEN <<>>
  ELSE IF TypeOf(Head(a)) = "number"
    THEN <<Str(NumberToString(Head(a)))>> \o StringifyUntilThrow(Tail(a))
  ELSE IF TypeOf(Head(a)) = "string" THEN <<Head(a)>> \o StringifyUntilThrow(Tail(a))
  ELSE a

\* parsed after one iteration for the definition d: when only one alias has a
\* value and that value is an array, collectValues returns that very array, and
\* value[i] = String(v) of the string[] branch writes to it
RewriteArray(d, kv) ==
  LET Rewrite(longValue, shortValue) ==
        IF IsArray(longValue) /\ IsNull(shortValue)
          THEN Store(kv, d.long, Arr(StringifyUntilThrow(longValue.a)))
        ELSE IF IsNull(longValue) /\ IsArray(shortValue)
          THEN Store(kv, d.short, Arr(StringifyUntilThrow(shortValue.a)))
        ELSE kv
  IN IF d.type # "string[]" THEN kv
     ELSE Rewrite(GetProperty(kv, d.long),
                  IF d.short # <<>> THEN GetProperty(kv, d.short) ELSE Null)

\* the loop of validate over defs: [ok, options, err, kv], options the result
\* so far as [key, value], kv the parsed object as the loop leaves it
RECURSIVE ValidateKeys(_, _)
ValidateKeys(defs, kv) ==
  LET Join(r, rest) ==
        IF ~rest.ok THEN rest
        ELSE [rest EXCEPT !.options = <<[key |-> Head(defs).key, value |-> r.value]>> \o @]
      After(r, kv2) ==
        IF ~r.ok THEN [ok |-> FALSE, options |-> <<>>, err |-> r.err, kv |-> kv2]
        ELSE Join(r, ValidateKeys(Tail(defs), kv2))
      Iteration(d, kv1) == After(ValidateKey(d, kv1), RewriteArray(d, kv1))
      Cleared(d) == Iteration(d, IF d.type = "boolean" THEN ClearFalse(kv, d) ELSE kv)
  IN IF defs = <<>> THEN [ok |-> TRUE, options |-> <<>>, err |-> NoError, kv |-> kv]
     ELSE Cleared(Fields(Head(defs)))

\* the string keys of longToType and shortToType, and the keys of longToType
\* whose type is "boolean".  For an inherited entry the key that
\* longToType.set(long, type) sets is undefined, which no string is
longToType(defs) == {defs[n].def.long : n \in {m \in 1..Len(defs) : defs[m].own}}
shortToType(defs) ==
  {defs[n].def.short : n \in {m \in 1..Len(defs) : defs[m].own /\ defs[m].def.short # <<>>}}
booleanLongs(defs) ==
  {defs[n].def.long : n \in {m \in 1..Len(defs) : defs[m].own /\ defs[m].def.type = "boolean"}}

\* /^--([^=]+)=.*$/.exec(arg): the group, or <<>> when there is no match
LongEqKey(arg) ==
  LET e == FirstEq(arg, 3)
  IN IF StartsWith(arg, <<"-", "-">>) /\ e >= 4 /\ \A k \in (e + 1)..Len(arg) : IsDot(arg[k])
     THEN SubSeq(arg, 3, e - 1) ELSE <<>>

\* the loop of validate over args that rejects --flag=value for a boolean flag:
\* the flag of the first offending token before "--", or <<>>
RECURSIVE BooleanWithValue(_, _)
BooleanWithValue(args, defs) ==
  IF args = <<>> \/ Head(args) = <<"-", "-">> THEN <<>>
  ELSE IF LongEqKey(Head(args)) # <<>> /\ LongEqKey(Head(args)) \in booleanLongs(defs)
    THEN LongEqKey(Head(args))
  ELSE BooleanWithValue(Tail(args), defs)

\* the keys of parsed other than "_" and "--" in the order of for (key in parsed)
ParsedKeys(kv) == OwnKeys([n \in 1..Len(kv) |-> kv[n].k])

\* --- new RegExp(pattern), without flags: the pattern is parsed as the engine
\* --- of Node parses it (a pattern is a sequence of characters) ---

ReOk(v, i) == [ok |-> TRUE, v |-> v, i |-> i, err |-> ""]
ReErr(m) == [ok |-> FALSE, v |-> <<>>, i |-> 0, err |-> m]

\* the nodes of a parsed pattern
ReChar(c) == [t |-> "char", c |-> c]
ReAny == [t |-> "any"]
ReClass(neg, items) == [t |-> "class", neg |-> neg, items |-> items]
ReAssert(t) == [t |-> t]
ReAlt(alts) == [t |-> "alt", alts |-> alts]
ReRep(body, min, max) == [t |-> "rep", body |-> body, min |-> min, max |-> max]
ReLook(behind, neg, body) == [t |-> "look", behind |-> behind, neg |-> neg, body |-> body]

\* the members of a character class: a character, one of \d \D \w \W \s \S,
\* a range of character codes
ClassChar(c) == [k |-> "char", c |-> c, lo |-> 0, hi |-> 0]
ClassEscape(c) == [k |-> "esc", c |-> c, lo |-> 0, hi |-> 0]
ClassRange(lo, hi) == [k |-> "range", c |-> "", lo |-> lo, hi |-> hi]

OctalDigits == {"0", "1", "2", "3", "4", "5", "6", "7"}

\* \w
IsWordChar(c) == c \in AlNum \cup {"_"}

\* the position after a character class whose [ has been read, for the scan
RECURSIVE SkipClass(_, _)
SkipClass(p, i) ==
  IF i > Len(p) THEN i
  ELSE IF p[i] = "\\" THEN SkipClass(p, i + 2)
  ELSE IF p[i] = "]" THEN i + 1
  ELSE SkipClass(p, i + 1)

\* the scan of the pattern for its capture groups, from position i: their
\* number and whether one is named
RECURSIVE ScanForCaptures(_, _, _)
ScanForCaptures(p, i, r) ==
  IF i > Len(p) THEN r
  ELSE IF p[i] = "\\" THEN ScanForCaptures(p, i + 2, r)
  ELSE IF p[i] = "[" THEN ScanForCaptures(p, SkipClass(p, i + 1), r)
  ELSE IF p[i] # "(" THEN ScanForCaptures(p, i + 1, r)
  ELSE IF ~(i + 1 <= Len(p) /\ p[i + 1] = "?")
    THEN ScanForCaptures(p, i + 1, [r EXCEPT !.count = @ + 1])
  ELSE IF ~(i + 2 <= Len(p) /\ p[i + 2] = "<") THEN ScanForCaptures(p, i + 2, r)
  ELSE IF i + 3 <= Len(p) /\ p[i + 3] \in {"=", "!"} THEN ScanForCaptures(p, i + 3, r)
  ELSE ScanForCaptures(p, i + 3, [count |-> r.count + 1, named |-> TRUE])

Captures(p) == ScanForCaptures(p, 1, [count |-> 0, named |-> FALSE])

\* whether the decimal escape at position j (its first digit, 1 .. 9) is a
\* back reference: its number is at most the number of capture groups
IsBackReference(p, j) ==
  LET d == SubSeq(p, j, SkipDigits(p, j) - 1)
  IN Len(d) <= 5 /\ DigitsToInt(d) <= Captures(p).count

\* the legacy octal escape whose first digit is at position j: up to three
\* octal digits with a value below 256
Octal(p, j) ==
  LET Three(v) ==
        IF v < 32 /\ j + 2 <= Len(p) /\ p[j + 2] \in OctalDigits
        THEN ReOk(CharOfCode(8 * v + DigitVal(p[j + 2])), j + 3)
        ELSE ReOk(CharOfCode(v), j + 2)
  IN IF j + 1 <= Len(p) /\ p[j + 1] \in OctalDigits
     THEN Three(8 * DigitVal(p[j]) + DigitVal(p[j + 1]))
     ELSE ReOk(CharOfCode(DigitVal(p[j])), j + 1)

\* the character of the escape at position i (a backslash followed by a
\* character), inside a character class or outside
CharEscape(p, i, inClass) ==
  LET e == p[i + 1]
      hex2 == i + 3 <= Len(p) /\ p[i + 2] \in HexDigits /\ p[i + 3] \in HexDigits
      hex4 == i + 5 <= Len(p) /\ \A k \in 2..5 : p[i + k] \in HexDigits
      ctl == /\ i + 2 <= Len(p)
             /\ (p[i + 2] \in Letters \/ (inClass /\ p[i + 2] \in Digits \cup {"_"}))
  IN CASE e = "f" -> ReOk("\f", i + 2)
       [] e = "n" -> ReOk("\n", i + 2)
       [] e = "r" -> ReOk("\r", i + 2)
       [] e = "t" -> ReOk("\t", i + 2)
       [] e = "v" -> ReOk(CharOfCode(11), i + 2)
       [] e = "c" -> IF ctl THEN ReOk(CharOfCode(CodeOfChar(p[i + 2]) % 32), i + 3)
                     ELSE ReOk("\\", i + 1)
       [] e \in OctalDigits -> Octal(p, i + 1)
       [] e = "x" -> IF hex2 THEN ReOk(CharOfCode(16 * HexVal(p[i + 2]) + HexVal(p[i + 3])), i + 4)
                     ELSE ReOk("x", i + 2)
       [] e = "u" -> IF hex4 THEN ReOk(CharOfCode(Hex4(p, i + 2)), i + 6) ELSE ReOk("u", i + 2)
       [] e = "k" -> IF Captures(p).named THEN Undefined ELSE ReOk("k", i + 2)
       [] OTHER -> ReOk(e, i + 2)

\* the atom of the escape at position i, outside a character class.  A back
\* reference is not defined here.
AtomEscape(p, i) ==
  LET Char(c) == ReOk(ReChar(c.v), c.i)
  IN IF i + 1 > Len(p) THEN ReErr("\\ at end of pattern")
     ELSE IF p[i + 1] \in {"d", "D", "w", "W", "s", "S"}
       THEN ReOk(ReClass(FALSE, <<ClassEscape(p[i + 1])>>), i + 2)
     ELSE IF p[i + 1] \in Digits \ {"0"} /\ IsBackReference(p, i + 1) THEN Undefined
     ELSE Char(CharEscape(p, i, FALSE))

\* the member of a character class at position j
ClassAtom(p, j) ==
  LET Char(c) == ReOk(ClassChar(c.v), c.i)
  IN IF p[j] # "\\" THEN ReOk(ClassChar(p[j]), j + 1)
     ELSE IF j + 1 > Len(p) THEN ReErr("\\ at end of pattern")
     ELSE IF p[j + 1] \in {"d", "D", "w", "W", "s", "S"} THEN ReOk(ClassEscape(p[j + 1]), j + 2)
     ELSE IF p[j + 1] = "b" THEN ReOk(ClassChar(CharOfCode(8)), j + 2)
     ELSE Char(CharEscape(p, j, TRUE))

\* the members of a character class from position j to its ], acc being the
\* members read so far
RECURSIVE ClassItems(_, _, _)
ClassRangeItems(p, acc, a, b) ==
  IF ~b.ok THEN b
  ELSE IF a.v.k = "esc" \/ b.v.k = "esc"
    THEN ClassItems(p, b.i, acc \o <<a.v, ClassChar("-"), b.v>>)
  ELSE IF CodeOfChar(a.v.c) > CodeOfChar(b.v.c)
    THEN ReErr("Range out of order in character class")
  ELSE ClassItems(p, b.i, Append(acc, ClassRange(CodeOfChar(a.v.c), CodeOfChar(b.v.c))))
ClassAfterAtom(p, acc, a) ==
  IF ~a.ok THEN a
  ELSE IF ~(a.i <= Len(p) /\ p[a.i] = "-") THEN ClassItems(p, a.i, Append(acc, a.v))
  ELSE IF a.i + 1 > Len(p) THEN ReErr("Unterminated character class")
  ELSE IF p[a.i + 1] = "]" THEN ReOk(acc \o <<a.v, ClassChar("-")>>, a.i + 2)
  ELSE ClassRangeItems(p, acc, a, ClassAtom(p, a.i + 1))
ClassItems(p, j, acc) ==
  IF j > Len(p) THEN ReErr("Unterminated character class")
  ELSE IF p[j] = "]" THEN ReOk(acc, j + 1)
  ELSE ClassAfterAtom(p, acc, ClassAtom(p, j))

\* the character class whose [ is before position i
ParseClass(p, i) ==
  LET Class(neg, r) == IF r.ok THEN ReOk(ReClass(neg, r.v), r.i) ELSE r
  IN IF i <= Len(p) /\ p[i] = "^" THEN Class(TRUE, ClassItems(p, i + 1, <<>>))
     ELSE Class(FALSE, ClassItems(p, i, <<>>))

\* the number of a quantifier {n,m}, read digit by digit from v on: it stays
\* at 2147483647 once the next digit would take it beyond
RECURSIVE QuantifierValue(_, _)
QuantifierValue(ds, v) ==
  IF ds = <<>> THEN v
  ELSE IF v > (2147483647 - DigitVal(Head(ds))) \div 10 THEN 2147483647
  ELSE QuantifierValue(Tail(ds), 10 * v + DigitVal(Head(ds)))

QuantifierNumber(ds) == QuantifierValue(ds, 0)

\* the quantifier {n}, {n,} or {n,m} at position i, if there is one: its
\* bounds (max 2147483647 for no bound) and the position after it
IntervalAt(p, i) ==
  LET none == [ok |-> FALSE, min |-> 0, max |-> 0, i |-> 0]
      Interval(min, max, e) == [ok |-> TRUE, min |-> min, max |-> max, i |-> e]
      Upper(a, b) ==
        IF b > a + 1 /\ b <= Len(p) /\ p[b] = "}"
        THEN Interval(QuantifierNumber(SubSeq(p, i + 1, a - 1)),
                      QuantifierNumber(SubSeq(p, a + 1, b - 1)), b + 1)
        ELSE none
      Same(min, e) == Interval(min, min, e)
      Lower(a) ==
        IF a = i + 1 \/ a > Len(p) THEN none
        ELSE IF p[a] = "}" THEN Same(QuantifierNumber(SubSeq(p, i + 1, a - 1)), a + 1)
        ELSE IF p[a] # "," THEN none
        ELSE IF a + 1 <= Len(p) /\ p[a + 1] = "}"
          THEN Interval(QuantifierNumber(SubSeq(p, i + 1, a - 1)), 2147483647, a + 2)
        ELSE Upper(a, SkipDigits(p, a + 1))
  IN Lower(SkipDigits(p, i + 1))

\* the atom with the quantifier that follows it at position j, if there is
\* one; a look-behind cannot be repeated
Quantified(p, j, atom) ==
  LET Repeat(min, max, e) ==
        IF max < min THEN ReErr("numbers out of order in {} quantifier")
        ELSE IF atom.t = "look" /\ atom.behind THEN ReErr("Invalid quantifier")
        ELSE ReOk(ReRep(atom, min, max), IF e <= Len(p) /\ p[e] = "?" THEN e + 1 ELSE e)
      Interval(iv) == IF iv.ok THEN Repeat(iv.min, iv.max, iv.i) ELSE ReOk(atom, j)
  IN IF j > Len(p) THEN ReOk(atom, j)
     ELSE CASE p[j] = "*" -> Repeat(0, 2147483647, j + 1)
            [] p[j] = "+" -> Repeat(1, 2147483647, j + 1)
            [] p[j] = "?" -> Repeat(0, 1, j + 1)
            [] p[j] = "{" -> Interval(IntervalAt(p, j))
            [] OTHER -> ReOk(atom, j)

RECURSIVE ParseDisjunction(_, _)
RECURSIVE ParseTerms(_, _, _)

\* the group whose ( is at position i.  A named group is not defined here.
ParseGroup(p, i) ==
  LET Close(node, d) ==
        IF ~d.ok THEN d
        ELSE IF d.i > Len(p) THEN ReErr("Unterminated group")
        ELSE ReOk(CASE node = "ahead" -> ReLook(FALSE, p[i + 2] = "!", ReAlt(d.v))
                    [] node = "behind" -> ReLook(TRUE, p[i + 3] = "!", ReAlt(d.v))
                    [] OTHER -> ReAlt(d.v),
                  d.i + 1)
      Special(k, b) ==
        CASE k = ":" -> Close("group", ParseDisjunction(p, i + 3))
          [] k \in {"=", "!"} -> Close("ahead", ParseDisjunction(p, i + 3))
          [] k = "<" /\ b \in {"=", "!"} -> Close("behind", ParseDisjunction(p, i + 4))
          [] k = "<" /\ b \notin {"=", "!"} -> Undefined
          [] OTHER -> ReErr("Invalid group")
  IN IF i + 1 <= Len(p) /\ p[i + 1] = "?"
     THEN Special(IF i + 2 <= Len(p) THEN p[i + 2] ELSE "", IF i + 3 <= Len(p) THEN p[i + 3] ELSE "")
     ELSE Close("group", ParseDisjunction(p, i + 1))

\* the atom at position i
ParseAtom(p, i) ==
  CASE p[i] = "(" -> ParseGroup(p, i)
    [] p[i] = "[" -> ParseClass(p, i + 1)
    [] p[i] = "\\" -> AtomEscape(p, i)
    [] p[i] = "." -> ReOk(ReAny, i + 1)
    [] OTHER -> ReOk(ReChar(p[i]), i + 1)

\* the term t, an atom with its quantifier, and the terms after it
TermsAfter(p, acc, t) == IF ~t.ok THEN t ELSE ParseTerms(p, t.i, Append(acc, t.v))
TermsAfterAtom(p, acc, a) == IF ~a.ok THEN a ELSE TermsAfter(p, acc, Quantified(p, a.i, a.v))

\* the terms of an alternative from position i to its end ("|", ")" or the
\* end of the pattern), acc being the terms read so far
ParseTerms(p, i, acc) ==
  IF i > Len(p) \/ p[i] \in {"|", ")"} THEN ReOk(acc, i)
  ELSE IF p[i] \in {"*", "+", "?"} THEN ReErr("Nothing to repeat")
  ELSE IF p[i] = "{" /\ IntervalAt(p, i).ok THEN ReErr("Nothing to repeat")
  ELSE IF p[i] = "^" THEN ParseTerms(p, i + 1, Append(acc, ReAssert("bol")))
  ELSE IF p[i] = "$" THEN ParseTerms(p, i + 1, Append(acc, ReAssert("eol")))
  ELSE IF p[i] = "\\" /\ i + 1 <= Len(p) /\ p[i + 1] = "b"
    THEN ParseTerms(p, i + 2, Append(acc, ReAssert("boundary")))
  ELSE IF p[i] = "\\" /\ i + 1 <= Len(p) /\ p[i + 1] = "B"
    THEN ParseTerms(p, i + 2, Append(acc, ReAssert("nonboundary")))
  ELSE TermsAfterAtom(p, acc, ParseAtom(p, i))

\* the alternatives from position i to the ")" that ends them or to the end
\* of the pattern
DisjunctionAfter(p, r) ==
  IF ~r.ok THEN r
  ELSE IF ~(r.i <= Len(p) /\ p[r.i] = "|") THEN ReOk(<<r.v>>, r.i)
  ELSE LET rest == ParseDisjunction(p, r.i + 1)
       IN IF ~rest.ok THEN rest ELSE ReOk(<<r.v>> \o rest.v, rest.i)
ParseDisjunction(p, i) == DisjunctionAfter(p, ParseTerms(p, i, <<>>))

\* new RegExp(pattern): the parsed pattern, or the message of the SyntaxError
RegExp(pattern) ==
  LET d == ParseDisjunction(pattern, 1)
  IN IF ~d.ok THEN d
     ELSE IF d.i <= Len(pattern) THEN ReErr("Unmatched ')'")
     ELSE ReOk(ReAlt(d.v), 0)

InEscape(e, c) ==
  CASE e = "d" -> c \in Digits
    [] e = "D" -> c \notin Digits
    [] e = "w" -> IsWordChar(c)
    [] e = "W" -> ~IsWordChar(c)
    [] e = "s" -> IsSpace(c)
    [] e = "S" -> ~IsSpace(c)

InItem(item, c) ==
  CASE item.k = "char" -> c = item.c
    [] item.k = "esc" -> InEscape(item.c, c)
    [] item.k = "range" -> CodeOfChar(c) \in item.lo..item.hi

\* the positions where a match of node that starts at position i of s can end
RECURSIVE Ends(_, _, _)
RECURSIVE EndsOfTerms(_, _, _)
RECURSIVE RepEnds(_, _, _, _, _, _, _)
EndsOfTerms(terms, s, from) ==
  IF terms = <<>> \/ from = {} THEN from
  ELSE EndsOfTerms(Tail(terms), s, UNION {Ends(Head(terms), s, i) : i \in from})
\* cur: the ends after n repetitions; acc: the ends after min .. n - 1 of them
RepEnds(body, s, cur, n, min, max, acc) ==
  LET Step(next, counted) ==
        IF cur = {} \/ n = max THEN counted
        ELSE IF next = cur THEN acc \cup cur
        ELSE RepEnds(body, s, next, n + 1, min, max, counted)
  IN Step(UNION {Ends(body, s, i) : i \in cur}, IF n >= min THEN acc \cup cur ELSE acc)
Ends(node, s, i) ==
  CASE node.t = "char" -> IF i <= Len(s) /\ s[i] = node.c THEN {i + 1} ELSE {}
    [] node.t = "any" -> IF i <= Len(s) /\ IsDot(s[i]) THEN {i + 1} ELSE {}
    [] node.t = "class" ->
         IF i <= Len(s) /\ ((\E k \in 1..Len(node.items) : InItem(node.items[k], s[i])) # node.neg)
         THEN {i + 1} ELSE {}
    [] node.t = "bol" -> IF i = 1 THEN {i} ELSE {}
    [] node.t = "eol" -> IF i = Len(s) + 1 THEN {i} ELSE {}
    [] node.t \in {"boundary", "nonboundary"} ->
         IF ((i > 1 /\ IsWordChar(s[i - 1])) # (i <= Len(s) /\ IsWordChar(s[i])))
            = (node.t = "boundary")
         THEN {i} ELSE {}
    [] node.t = "alt" -> UNION {EndsOfTerms(node.alts[k], s, {i}) : k \in 1..Len(node.alts)}
    [] node.t = "rep" -> RepEnds(node.body, s, {i}, 0, node.min, node.max, {})
    [] node.t = "look" ->
         IF (IF node.behind THEN \E k \in 1..i : i \in Ends(node.body, s, k)
             ELSE Ends(node.body, s, i) # {}) # node.neg
         THEN {i} ELSE {}

\* re.test(s) for the parsed pattern re
RegExpTest(re, s) == \E i \in 1..(Len(s) + 1) : Ends(re, s, i) # {}

\* the SyntaxError new RegExp(pattern) throws
InvalidRegExp(pattern, m) ==
  [kind |-> "SyntaxError",
   message |-> <<"Invalid regular expression: /">> \o pattern \o <<"/: ", m>>]

Named(name) == [ok |-> TRUE, name |-> name, err |-> NoError]

\* throw new ValidationError(`unknown option: ${name}`), or the SyntaxError
ThrowUnknown(u) ==
  [ok |-> FALSE, targets |-> <<>>, options |-> <<>>, rest |-> <<>>,
   err |-> IF u.ok THEN ValidationError(<<"unknown option: ">> \o u.name) ELSE u.err]

\* the inner loop over args that rebuilds the name of the unknown key: the
\* name, or the SyntaxError of a key that is no regular expression
RECURSIVE UnknownName(_, _)
UnknownNameIn(args, key, long, short) ==
  IF ~long.ok
    THEN [ok |-> FALSE, name |-> <<>>, err |-> InvalidRegExp(<<"^", "-", "-">> \o key, long.err)]
  ELSE IF RegExpTest(long.v, Head(args)) THEN Named(<<"-", "-">> \o key)
  ELSE IF ~short.ok
    THEN [ok |-> FALSE, name |-> <<>>, err |-> InvalidRegExp(<<"^", "-">> \o key, short.err)]
  ELSE IF RegExpTest(short.v, Head(args)) THEN Named(<<"-">> \o key)
  ELSE UnknownName(Tail(args), key)
UnknownName(args, key) ==
  IF args = <<>> THEN Named(<<"undefined">>)
  ELSE UnknownNameIn(args, key, RegExp(<<"^", "-", "-">> \o key), RegExp(<<"^", "-">> \o key))

\* the keys of parsed that name no declared flag, in for-in order
UnknownKeys(kv, defs) ==
  SelectSeq(ParsedKeys(kv), LAMBDA k : k \notin longToType(defs) /\ k \notin shortToType(defs))

\* requireTarget is false, true or a string; "" is falsy
Truthy(v) ==
  CASE v.t = "bool" -> v.b
    [] v.t = "str" -> v.s # <<>>
    [] OTHER -> FALSE

\* the error of the requireTarget check
TargetError(requireTarget) ==
  IF requireTarget.t = "str" THEN ValidationError(requireTarget.s) ELSE ValidationError(<<>>)

Invalid(e) == [ok |-> FALSE, targets |-> <<>>, options |-> <<>>, rest |-> <<>>, err |-> e]

\* the object parsed when validate returns or throws: the loop over defs
\* writes to it
ParsedAfter(parsed, defs, requireTarget) ==
  IF Truthy(requireTarget) /\ Len(parsed.und) = 0 THEN parsed
  ELSE [parsed EXCEPT !.kv = ValidateKeys(defs, parsed.kv).kv]

\* validate(args, parsed, defs, requireTarget)
validate(args, parsed, defs, requireTarget) ==
  LET Unknown(keys, unknown) ==
        IF unknown # <<>> THEN ThrowUnknown(UnknownName(args, unknown[1]))
        ELSE [ok |-> TRUE, targets |-> parsed.und, options |-> keys.options,
              rest |-> parsed.rest, err |-> NoError]
      Flag(keys, flag) ==
        IF flag # <<>>
        THEN Invalid(ValidationError(<<"-", "-">> \o flag \o <<" should be a boolean">>))
        ELSE Unknown(keys, UnknownKeys(keys.kv, defs))
      Keys(keys) ==
        IF ~keys.ok THEN Invalid(keys.err) ELSE Flag(keys, BooleanWithValue(args, defs))
  IN IF Truthy(requireTarget) /\ Len(parsed.und) = 0 THEN Invalid(TargetError(requireTarget))
     ELSE Keys(ValidateKeys(defs, parsed.kv))

-----------------------------------------------------------------------------
(* makeHelp *)

TypeChars(type) ==
  CASE type = "boolean" -> <<"b", "o", "o", "l", "e", "a", "n">>
    [] type \in {"number", "number[]"} -> <<"n", "u", "m", "b", "e", "r">>
    [] type \in {"string", "string[]"} -> <<"s", "t", "r", "i", "n", "g">>

\* the left column of a definition
HelpLeft(d) ==
  (IF d.short # <<>> THEN <<"-">> \o d.short \o <<",", " ">> ELSE <<>>)
  \o <<"-", "-">> \o d.long
  \o (IF d.type = "boolean" THEN <<>> ELSE <<" ", "<">> \o TypeChars(d.type) \o <<">">>)

\* the right column of a definition
HelpRight(d) ==
  d.description
  \o (IF d.required THEN <<" (required)">>
      ELSE IF ~IsNull(d.defaultValue)
              /\ JsonStringify(d.defaultValue) # JsonStringify(defaultValueOf(d.type))
        THEN <<" (default:">> \o JsonStringify(d.defaultValue) \o <<")">>
      ELSE <<>>)

RECURSIVE MaxLeft(_)
MaxLeft(defs) ==
  IF defs = <<>> THEN 0
  ELSE LET n == Len(HelpLeft(Head(defs).def))
           m == MaxLeft(Tail(defs))
       IN IF n > m THEN n ELSE m

\* left.padEnd(n)
PadEnd(s, n) == s \o [k \in 1..(IF n > Len(s) THEN n - Len(s) ELSE 0) |-> " "]

RECURSIVE HelpLines(_, _)
HelpLines(defs, width) ==
  IF defs = <<>> THEN <<>>
  ELSE <<" ", " ">> \o PadEnd(HelpLeft(Head(defs).def), width) \o <<" ">>
       \o HelpRight(Head(defs).def) \o <<"\n">> \o HelpLines(Tail(defs), width)

\* makeHelp(usage, defs), usage being null or a string: [ok, s, err], s the
\* string returned, err the error thrown.  For an inherited entry d is a
\* string, a boolean, a number or an array, d.type is undefined and
\* d.type.replace throws; the iterations before it have written nothing
makeHelp(usage, defs) ==
  IF \E n \in 1..Len(defs) : ~defs[n].own
  THEN [ok |-> FALSE, s |-> <<>>,
        err |-> TypeError(<<"Cannot read properties of undefined (reading 'replace')">>)]
  ELSE [ok |-> TRUE,
        s |-> (IF Truthy(usage) THEN <<"Usage: ">> \o usage.s \o <<"\n">> ELSE <<>>)
              \o (IF Len(defs) > 0 THEN <<"Options:\n">> ELSE <<>>)
              \o HelpLines(defs, MaxLeft(defs)),
        err |-> NoError]

-----------------------------------------------------------------------------
(* Inputs: definition strings, built from their parts *)

sNone == <<>>
sA == <<"-", "a", ",">>
sSpaced == <<" ", "-", "a", " ", ",", " ">>

lFoo == <<"-", "-", "f", "o", "o">>
lHelp == <<"-", "-", "h", "e", "l", "p">>
lToString == <<"-", "-", "t", "o", "S", "t", "r", "i", "n", "g">>
lA == <<"-", "-", "a">>
lBar == <<"-", "-", "b", "a", "r">>
lNoDashes == <<"f", "o", "o">>

yBoolean == <<":", "b", "o", "o", "l", "e", "a", "n">>
yNumber == <<":", "n", "u", "m", "b", "e", "r">>
yNumbers == <<":", "n", "u", "m", "b", "e", "r", "[", "]">>
yString == <<":", "s", "t", "r", "i", "n", "g">>
yStrings == <<":", "s", "t", "r", "i", "n", "g", "[", "]">>
ySpaced == <<" ", ":", " ", "n", "u", "m", "b", "e", "r", " ", "[", " ", "]", " ">>
yInt == <<":", "i", "n", "t">>
yMissing == <<>>
yOpenBracket == <<":", "n", "u", "m", "b", "e", "r", "[">>

GoodTypes == {yBoolean, yNumber, yNumbers, yString, yStrings}

dNone == <<>>
dRequired == <<"!">>
dTrue == <<"=", "t", "r", "u", "e">>
dOne == <<"=", "1">>
dZero == <<"=", "0">>
dNull == <<"=", "n", "u", "l", "l">>
dStr == <<"=", "\"", "x", "\"">>
dEmptyStr == <<"=", "\"", "\"">>
dSemiStr == <<"=", "\"", ";", "\\", "\"", "\"">>
dNums == <<"=", "[", " ", "2", " ", ",", " ", "1", " ", "]">>
dStrs == <<"=", "[", "\"", "y", "\"", ",", "\"", "x", "\"", "]">>
dEmptyArr == <<"=", "[", "]">>
dBoolArr == <<"=", "[", "t", "r", "u", "e", "]">>
dMixedArr == <<"=", "[", "1", ",", "\"", "x", "\"", "]">>
dBareWord == <<"=", "x">>
dOpenArr == <<"=", "[", "1">>
dEmpty == <<"=">>
dLeadingZero == <<"=", "0", "1">>
dOpenQuote == <<"=", "\"", "x">>
dRequiredThenDefault == <<"!", "=", "1">>
dDefaultThenRequired == <<"=", "1", "!">>
dHuge == <<"=", "1", "e", "9", "9", "9">>

\* the =default clauses whose literal JSON.parse decodes
DecodableDefaults ==
  {dTrue, dOne, dZero, dNull, dStr, dEmptyStr, dSemiStr, dNums, dStrs, dEmptyArr,
   dBoolArr, dMixedArr, dHuge}

\* the =default clauses whose literal JSON.parse rejects
UndecodableDefaults == {dBareWord, dOpenArr, dEmpty, dLeadingZero, dDefaultThenRequired}

\* clauses after the type that the grammar does not allow
MalformedClauses == {dOpenQuote, dRequiredThenDefault}

eNone == <<>>
eText == <<";", " ", "d">>
eNoSemicolon == <<" ", "d">>

\* the definition string made of a short part, a long part, a type part, a
\* required-or-default clause and a description part
DefString(short, long, type, clause, desc) == short \o long \o type \o clause \o desc

-----------------------------------------------------------------------------
(* Inputs: command-line tokens *)

tFoo == <<"-", "-", "f", "o", "o">>
tFooEq == <<"-", "-", "f", "o", "o", "=">>
tFooEqOne == <<"-", "-", "f", "o", "o", "=", "1">>
tFooEqX == <<"-", "-", "f", "o", "o", "=", "x">>
tFooEqTrue == <<"-", "-", "f", "o", "o", "=", "t", "r", "u", "e">>
tFooEqFalse == <<"-", "-", "f", "o", "o", "=", "f", "a", "l", "s", "e">>
tFooEqLines == <<"-", "-", "f", "o", "o", "=", "x", "\n", "y">>
tFooEqZeroOne == <<"-", "-", "f", "o", "o", "=", "0", "1">>
tNoFoo == <<"-", "-", "n", "o", "-", "f", "o", "o">>
tA == <<"-", "a">>
tAOne == <<"-", "a", "1">>
tATwo == <<"-", "a", "2">>
tHelp == <<"-", "-", "h", "e", "l", "p">>
tUnknownLong == <<"-", "-", "z", "z">>
tUnknownShort == <<"-", "z">>
tDashDash == <<"-", "-">>
tDash == <<"-">>
tWord == <<"x">>
tOne == <<"1">>
tTrue == <<"t", "r", "u", "e">>
tUnknownEq == <<"-", "-", "z", "z", "=">>
tUnknownEqOne == <<"-", "-", "z", "z", "=", "1">>
tUnknownShortOne == <<"-", "z", "1">>
tNoUnknown == <<"-", "-", "n", "o", "-", "z", "z">>
tShortF == <<"-", "f">>
tToString == <<"-", "-", "t", "o", "S", "t", "r", "i", "n", "g">>
tToStringEqOne == <<"-", "-", "t", "o", "S", "t", "r", "i", "n", "g", "=", "1">>
tToStringEqX == <<"-", "-", "t", "o", "S", "t", "r", "i", "n", "g", "=", "x">>
tOpenGroup == <<"-", "-", "z", "(">>
tDollar == <<"-", "-", "z", "$">>
tStar == <<"-", "-", "z", "*">>
tPlus == <<"-", "-", "z", "+">>
tUndefined == <<"-", "-", "u", "n", "d", "e", "f", "i", "n", "e", "d">>

\* all token lists of length at most n over the tokens T
ArgLists(T, n) == UNION {[1..m -> T] : m \in 0..n}

-----------------------------------------------------------------------------
(* parseArgs as a state machine *)

VARIABLES
  args,         \* the token list passed to parseArgs
  definitions,  \* the definitions passed: its properties [key, s] as created
  config,       \* the options passed: [usage, exitOnError, handleHelp, requireTarget]
  pc,           \* where parseArgs is
  defs,         \* const defs = parseDefinitions(definitions), as for-in visits it
  parsed,       \* const parsed = minimist(args, minimistOptions)
  validated,    \* the result of validate, or the error it threw
  outcome,      \* how the call ended: returned, thrown or exited
  stdout,       \* what console.log wrote
  stderr,       \* what console.error wrote
  helpText,     \* the strings that calls of help(null) on the result returned
  helpExit,     \* the status of the call help(n) on the result that ended the
                \* process, -1 while there was none
  helpThrown    \* the error a call of help on the result threw, NoError while
                \* there was none

vars ==
  <<args, definitions, config, pc, defs, parsed, validated, outcome, stdout, stderr, helpText,
    helpExit, helpThrown>>

inputs == <<args, definitions, config>>

NoParsed == [und |-> <<>>, kv |-> <<>>, crashed |-> FALSE, message |-> <<>>, rest |-> <<>>]
NoValidated == [ok |-> FALSE, targets |-> <<>>, options |-> <<>>, rest |-> <<>>, err |-> NoError]

Pending == [kind |-> "pending", error |-> NoError, status |-> -1]
Returned == [kind |-> "returned", error |-> NoError, status |-> -1]
Thrown(e) == [kind |-> "thrown", error |-> e, status |-> -1]
Exited(n) == [kind |-> "exited", error |-> NoError, status |-> n]

\* minimistOptions.boolean: the short and long names of the boolean definitions
RECURSIVE booleanNames(_)
booleanNames(ds) ==
  IF ds = <<>> THEN <<>>
  ELSE LET d == Fields(Head(ds))
       IN (IF d.type = "boolean"
           THEN (IF d.short # <<>> THEN <<d.short>> ELSE <<>>) \o <<d.long>>
           ELSE <<>>) \o booleanNames(Tail(ds))

\* for (const key in defs) { const { short, long, type } = defs[key]; ... }:
\* minimistOptions.boolean, or the TypeError of destructuring null at an
\* inherited key
minimistOptions(ds) ==
  IF \E n \in 1..Len(ds) : IsNullEntry(ds[n])
  THEN [crashed |-> TRUE,
        message |-> <<"Cannot destructure property 'short' of 'defs[key]' as it is null.">>,
        boolean |-> <<>>]
  ELSE [crashed |-> FALSE, message |-> <<>>, boolean |-> booleanNames(ds)]

\* validated.options.help === true
HelpRequested(options) ==
  \E n \in 1..Len(options) : options[n].key = kHelp /\ options[n].value = Bool(TRUE)

\* const defs = parseDefinitions(definitions), when it returns
ParseDefinitionsOk ==
  /\ pc = "parseDefinitions"
  /\ parseDefinitions(definitions).ok
  /\ defs' = ForInDefs(parseDefinitions(definitions))
  /\ pc' = "minimist"
  /\ UNCHANGED <<inputs, helpText, helpExit, helpThrown, parsed, validated, outcome, stdout, stderr>>

\* parseDefinitions called inside the try block of a catch that applies the
\* exit policy to every error
ParseDefinitionsInsideTry ==
  /\ pc = "parseDefinitions"
  /\ ~parseDefinitions(definitions).ok
  /\ IF config.exitOnError
     THEN /\ stderr' = stderr \o << <<"Error: ">> \o parseDefinitions(definitions).err.message,
                                    makeHelp(config.usage, <<>>).s >>
          /\ outcome' = Exited(1)
     ELSE /\ outcome' = Thrown(parseDefinitions(definitions).err)
          /\ UNCHANGED stderr
  /\ pc' = "done"
  /\ UNCHANGED <<inputs, helpText, helpExit, helpThrown, defs, parsed, validated, stdout>>

\* parseDefinitions throws: it is called outside the try block
ParseDefinitionsThrow ==
  /\ pc = "parseDefinitions"
  /\ ~parseDefinitions(definitions).ok
  /\ outcome' = Thrown(parseDefinitions(definitions).err)
  /\ pc' = "done"
  /\ UNCHANGED <<inputs, helpText, helpExit, helpThrown, defs, parsed, validated, stdout, stderr>>

\* the loop that fills minimistOptions, then const parsed = minimist(args,
\* minimistOptions): both outside the try block
Tokenize ==
  /\ pc = "minimist"
  /\ \E o \in {minimistOptions(defs)} :
       \E r \in {IF o.crashed THEN o ELSE minimist(args, o.boolean)} :
         IF r.crashed
         THEN /\ outcome' = Thrown(TypeError(r.message))
              /\ pc' = "done"
              /\ UNCHANGED parsed
         ELSE /\ parsed' = r
              /\ pc' = "validate"
              /\ UNCHANGED outcome
  /\ UNCHANGED <<inputs, helpText, helpExit, helpThrown, defs, validated, stdout, stderr>>

\* validate(args, parsed, defs, requireTarget) returns
ValidateOk ==
  /\ pc = "validate"
  /\ \E v \in {validate(args, parsed, defs, config.requireTarget)} : v.ok /\ validated' = v
  /\ parsed' = ParsedAfter(parsed, defs, config.requireTarget)
  /\ pc' = "validated"
  /\ UNCHANGED <<inputs, helpText, helpExit, helpThrown, defs, outcome, stdout, stderr>>

\* validate throws: a ValidationError, or the SyntaxError of new RegExp for an
\* unknown key.  The catch block catches it.
ValidateThrow ==
  /\ pc = "validate"
  /\ \E v \in {validate(args, parsed, defs, config.requireTarget)} : ~v.ok /\ validated' = v
  /\ parsed' = ParsedAfter(parsed, defs, config.requireTarget)
  /\ pc' = "catch"
  /\ UNCHANGED <<inputs, helpText, helpExit, helpThrown, defs, outcome, stdout, stderr>>

\* the largest number of calls of help(null) on one result
MaxHelpCalls == 2

\* the numbers the caller passes to help
ExitCodes == {0, 1}

\* whether parseArgs calls help(0) after a successful validate
CallsHelp(cfg, v) == cfg.handleHelp /\ HelpRequested(v.options)

\* if (handleHelp && validated.options.help === true) help(0): the help is
\* written and the process exits, or makeHelp throws an error that is no
\* ValidationError and the catch block throws it again
ShowHelp ==
  /\ pc = "validated"
  /\ CallsHelp(config, validated)
  /\ \E h \in {makeHelp(config.usage, defs)} :
       IF h.ok
       THEN /\ stdout' = Append(stdout, h.s)
            /\ outcome' = Exited(0)
       ELSE /\ outcome' = Thrown(h.err)
            /\ UNCHANGED stdout
  /\ pc' = "done"
  /\ UNCHANGED <<inputs, helpText, helpExit, helpThrown, defs, parsed, validated, stderr>>

\* return { ...validated, help }
Return ==
  /\ pc = "validated"
  /\ ~CallsHelp(config, validated)
  /\ outcome' = Returned
  /\ pc' = "done"
  /\ UNCHANGED <<inputs, helpText, helpExit, helpThrown, defs, parsed, validated, stdout, stderr>>

\* whether the catch block prints and exits for the error e
ExitsOnError(cfg, e) == e.kind = "ValidationError" /\ cfg.exitOnError

\* if (e.message) console.error("Error: " + e.message)
ErrorLine(e) == IF e.message # <<>> THEN << <<"Error: ">> \o e.message >> ELSE <<>>

\* catch (e): the error is printed if it has a message, then help(1) prints
\* the help and the process exits with 1, or makeHelp throws out of the catch
\* block
ExitOnError ==
  /\ pc = "catch"
  /\ ExitsOnError(config, validated.err)
  /\ \E h \in {makeHelp(config.usage, defs)} :
       IF h.ok
       THEN /\ stderr' = stderr \o ErrorLine(validated.err) \o <<h.s>>
            /\ outcome' = Exited(1)
       ELSE /\ stderr' = stderr \o ErrorLine(validated.err)
            /\ outcome' = Thrown(h.err)
  /\ pc' = "done"
  /\ UNCHANGED <<inputs, helpText, helpExit, helpThrown, defs, parsed, validated, stdout>>

\* catch (e): throw e
Rethrow ==
  /\ pc = "catch"
  /\ ~ExitsOnError(config, validated.err)
  /\ outcome' = Thrown(validated.err)
  /\ pc' = "done"
  /\ UNCHANGED <<inputs, helpText, helpExit, helpThrown, defs, parsed, validated, stdout, stderr>>

\* the caller calls help(null) on the result of parseArgs: makeHelp(usage,
\* defs) is returned, nothing is written and the process does not exit, or
\* makeHelp throws
HelpNull ==
  /\ pc = "done"
  /\ outcome = Returned
  /\ helpExit = -1
  /\ Len(helpText) < MaxHelpCalls
  /\ \E h \in {makeHelp(config.usage, defs)} :
       IF h.ok
       THEN /\ helpText' = Append(helpText, h.s)
            /\ UNCHANGED helpThrown
       ELSE /\ helpThrown' = h.err
            /\ UNCHANGED helpText
  /\ UNCHANGED <<inputs, pc, defs, parsed, validated, outcome, stdout, stderr, helpExit>>

\* the caller calls help(n) on the result of parseArgs, n a number: help(0)
\* writes makeHelp(usage, defs) with console.log, any other n with
\* console.error, and process.exit(n) ends the process; when makeHelp throws
\* nothing is written and the process goes on
HelpExit ==
  /\ pc = "done"
  /\ outcome = Returned
  /\ helpExit = -1
  /\ \E n \in ExitCodes :
       \E h \in {makeHelp(config.usage, defs)} :
         IF h.ok
         THEN /\ IF n = 0
                 THEN /\ stdout' = Append(stdout, h.s)
                      /\ UNCHANGED stderr
                 ELSE /\ stderr' = Append(stderr, h.s)
                      /\ UNCHANGED stdout
              /\ helpExit' = n
              /\ UNCHANGED helpThrown
         ELSE /\ helpThrown' = h.err
              /\ UNCHANGED <<stdout, stderr, helpExit>>
  /\ UNCHANGED <<inputs, pc, defs, parsed, validated, outcome, helpText>>

Next ==
  \/ ParseDefinitionsOk
  \/ ParseDefinitionsThrow
  \/ Tokenize
  \/ ValidateOk
  \/ ValidateThrow
  \/ ShowHelp
  \/ Return
  \/ ExitOnError
  \/ Rethrow
  \/ HelpNull
  \/ HelpExit

-----------------------------------------------------------------------------
(* The calls that are checked *)

\* the longest token list of a call
MaxArgs == 3

\* the largest number of definitions of a generated definition set
MaxDefs == 2

AllClauses == {dNone, dRequired} \cup DecodableDefaults \cup UndecodableDefaults \cup MalformedClauses

\* definition strings for --foo of every type, clause and description
GrammarStrings ==
  {DefString(sh, lFoo, ty, cl, e) :
     sh \in {sNone, sA}, ty \in GoodTypes \cup {ySpaced}, cl \in AllClauses, e \in {eNone, eText}}

\* strings that leave the grammar in one place, and the flexible spelling
OddStrings ==
  {<<>>,
   DefString(sNone, lNoDashes, yNumber, dNone, eNone),
   DefString(<<"-", "a">>, lFoo, yNumber, dNone, eNone),
   DefString(sA, lFoo, yInt, dNone, eNone),
   DefString(sA, lFoo, yMissing, dNone, eNone),
   DefString(sA, lFoo, yOpenBracket, dNone, eNone),
   DefString(sNone, lFoo, yString, dNone, eNoSemicolon),
   DefString(sNone, lFoo, yNumber, dOne, eNoSemicolon),
   DefString(sNone, lFoo, yBoolean, dRequired, eNoSemicolon),
   DefString(sSpaced, lFoo, ySpaced, dNums, eText),
   DefString(sSpaced, lFoo, ySpaced, dBoolArr, eText)}

\* the strings of the definition sets with several definitions
SetStrings ==
  {DefString(sA, lFoo, yBoolean, dNone, eNone),
   DefString(sNone, lFoo, yString, dNone, eNone),
   DefString(sNone, lA, yString, dNone, eNone),
   DefString(sA, lBar, yStrings, dNone, eNone),
   DefString(<<"-", "b", ",">>, lBar, yNumber, dRequired, eNone),
   DefString(sNone, lHelp, yInt, dNone, eNone)}

\* the keys of the definition sets
kS == <<"s">>
kT == <<"t">>
kU == <<"u">>
kV == <<"v">>
kOne == <<"1">>

KeyNames == <<kS, kT, kU, kV>>

\* definition sets of up to MaxDefs definitions over SetStrings
DefinitionSets ==
  UNION {{[i \in 1..n |-> [key |-> KeyNames[i], s |-> f[i]]] : f \in [1..n -> SetStrings]} :
         n \in 0..MaxDefs}

\* definition sets of one definition, under the key "s" or the key "help"
Single(key, strings) == {<<[key |-> key, s |-> d]>> : d \in strings}

HelpStrings ==
  {DefString(sNone, lHelp, yBoolean, dNone, eText),
   DefString(sA, lFoo, yBoolean, dNone, eNone),
   DefString(sNone, lFoo, yBoolean, dTrue, eNone),
   DefString(sNone, lHelp, yString, dNone, eNone)}

targetMessage == <<"n", "o", " ", "t", "a", "r", "g", "e", "t">>
usageText == <<"c", "m", "d">>

AllConfigs ==
  [usage : {Null, Str(<<>>), Str(usageText)},
   exitOnError : BOOLEAN,
   handleHelp : BOOLEAN,
   requireTarget : {Bool(FALSE), Bool(TRUE), Str(targetMessage)}]

\* exitOnError, handleHelp and requireTarget in every combination
PolicyConfigs == {c \in AllConfigs : c.usage = Null}

\* the defaults of parseArgs but for exitOnError
ErrorConfigs == {c \in PolicyConfigs : c.handleHelp /\ c.requireTarget = Bool(FALSE)}

\* the definitions of the calls that vary the tokens
TokenStrings ==
  {DefString(sA, lFoo, ty, dNone, eNone) : ty \in GoodTypes}
  \cup {DefString(sNone, lFoo, yBoolean, dNone, eNone),
        DefString(sNone, lFoo, yNumber, dNone, eNone),
        DefString(sA, lFoo, yNumber, dOne, eNone),
        DefString(sA, lFoo, yString, dRequired, eNone),
        DefString(sA, lFoo, yStrings, dStrs, eNone)}

CoreTokens == {tFoo, tFooEqOne, tFooEqX, tA, tAOne, tWord, tDashDash, tUnknownLong}

BooleanStrings ==
  {DefString(sA, lFoo, yBoolean, dNone, eNone),
   DefString(sNone, lFoo, yBoolean, dTrue, eNone)}

BooleanTokens ==
  {tFoo, tFooEq, tFooEqTrue, tFooEqFalse, tFooEqLines, tA, tAOne, tTrue, tWord, tDashDash, tNoFoo}

HelpTokens == {tHelp, tFoo, tWord, tDashDash}

\* the defaults of parseArgs but for exitOnError, which is off
ThrowConfigs == {c \in ErrorConfigs : ~c.exitOnError}

\* requireTarget off, "" (off as well), on and on with a message
TargetConfigs ==
  [usage : {Null},
   exitOnError : {FALSE},
   handleHelp : {TRUE},
   requireTarget : {Bool(FALSE), Str(<<>>), Bool(TRUE), Str(targetMessage)}]

ArrayStrings ==
  {DefString(sA, lFoo, yNumbers, dNone, eNone),
   DefString(sA, lFoo, yStrings, dNone, eNone)}

ArrayTokens == {tFooEqOne, tFooEqX, tAOne, tATwo, tA, tWord}

StringStrings ==
  {DefString(sA, lFoo, yString, dNone, eNone),
   DefString(sA, lFoo, yStrings, dNone, eNone)}

StringTokens == {tFooEq, tFooEqOne, tFooEqZeroOne, tFooEqX, tA, tAOne, tOne}

UnknownStrings ==
  {DefString(sNone, lHelp, yBoolean, dNone, eText),
   DefString(sA, lFoo, yNumber, dOne, eNone)}

UnknownTokens ==
  {tUnknownLong, tUnknownEq, tUnknownEqOne, tUnknownShort, tUnknownShortOne, tNoUnknown,
   tShortF, tFooEqOne, tOne, tDashDash}

TargetStrings ==
  {DefString(sA, lFoo, yBoolean, dNone, eNone),
   DefString(sA, lFoo, yString, dNone, eNone)}

TargetTokens == {tFoo, tA, tWord, tOne, tTrue, tDash, tDashDash}

\* definitions of an option whose long name is a method of Object.prototype
InheritedStrings ==
  {DefString(sNone, lToString, yString, dNone, eNone),
   DefString(sA, lToString, yString, dRequired, eNone),
   DefString(sA, lToString, yNumber, dNone, eNone),
   DefString(sA, lToString, yNumbers, dNone, eNone),
   DefString(sA, lToString, yStrings, dNone, eNone),
   DefString(sNone, lToString, yBoolean, dNone, eNone)}

InheritedTokens == {tToString, tToStringEqOne, tAOne, tATwo, tWord}

\* unknown flags whose names have characters that are special in a pattern
PatternTokens == {tOpenGroup, tDollar, tStar, tPlus, tUnknownLong, tWord}

\* calls that vary the definitions, under every policy and a few token lists
DefinitionCalls ==
  /\ definitions \in Single(kS, GrammarStrings \cup OddStrings) \cup DefinitionSets
                     \cup Single(kHelp, HelpStrings)
  /\ args \in {<<>>, <<tFooEqX>>, <<tUnknownLong>>, <<tWord>>}
  /\ config \in PolicyConfigs

\* calls that vary the tokens of one option of each type
TokenCalls ==
  /\ definitions \in Single(kS, TokenStrings)
  /\ args \in ArgLists(CoreTokens, MaxArgs)
  /\ config \in ErrorConfigs

\* calls that vary the tokens of a boolean option
BooleanCalls ==
  /\ definitions \in Single(kS, BooleanStrings)
  /\ args \in ArgLists(BooleanTokens, MaxArgs)
  /\ config \in ErrorConfigs

\* calls that vary the policy around a help option
HelpCalls ==
  /\ definitions \in Single(kHelp, HelpStrings) \cup Single(kS, HelpStrings)
  /\ args \in ArgLists(HelpTokens, MaxArgs)
  /\ config \in AllConfigs

\* calls that give an array option values through both of its aliases
ArrayCalls ==
  /\ definitions \in Single(kS, ArrayStrings)
  /\ args \in ArgLists(ArrayTokens, MaxArgs)
  /\ config \in ThrowConfigs

\* calls that give a string option number-like and empty values
StringCalls ==
  /\ definitions \in Single(kS, StringStrings)
  /\ args \in ArgLists(StringTokens, MaxArgs)
  /\ config \in ThrowConfigs

\* calls with flags that no definition declares
UnknownCalls ==
  /\ definitions \in Single(kS, UnknownStrings)
  /\ args \in ArgLists(UnknownTokens, MaxArgs)
  /\ config \in ThrowConfigs

\* calls that vary the positional tokens and requireTarget
TargetCalls ==
  /\ definitions \in Single(kS, TargetStrings)
  /\ args \in ArgLists(TargetTokens, MaxArgs)
  /\ config \in TargetConfigs

\* calls with an option named after a method of Object.prototype
InheritedCalls ==
  /\ definitions \in Single(kS, InheritedStrings)
  /\ args \in ArgLists(InheritedTokens, MaxArgs)
  /\ config \in ThrowConfigs

\* definition sets with the own key "__proto__": alone, with a definition
\* that has a null property (no short alias, no default) and with one that
\* has none; after and before another key; with a name that repeats
PrototypeSets ==
  Single(kProto, {DefString(sNone, lFoo, yNumber, dNone, eNone),
                  DefString(sA, lFoo, yNumber, dNone, eNone),
                  DefString(sNone, lFoo, yBoolean, dNone, eNone),
                  DefString(sNone, lFoo, yInt, dNone, eNone),
                  DefString(sA, lFoo, yBoolean, dNone, eNone),
                  DefString(sA, lFoo, yNumber, dOne, eText),
                  DefString(sA, lFoo, yStrings, dNone, eNone)})
  \cup {<<[key |-> kS, s |-> DefString(sA, lBar, yString, dNone, eNone)],
          [key |-> kProto, s |-> DefString(sNone, lFoo, yNumber, dNone, eNone)]>>,
        <<[key |-> kProto, s |-> DefString(sNone, lFoo, yNumber, dNone, eNone)],
          [key |-> kShort, s |-> DefString(sA, lBar, yString, dNone, eNone)]>>,
        <<[key |-> kProto, s |-> DefString(sNone, lFoo, yNumber, dNone, eNone)],
          [key |-> kS, s |-> DefString(sA, lFoo, yString, dNone, eNone)]>>,
        <<[key |-> kProto, s |-> DefString(sA, lFoo, yBoolean, dNone, eNone)],
          [key |-> kHelp, s |-> DefString(sNone, lHelp, yBoolean, dNone, eText)]>>,
        <<[key |-> kDefaultValue, s |-> DefString(sNone, lBar, yString, dStr, eNone)],
          [key |-> kProto, s |-> DefString(sA, lFoo, yString, dNone, eNone)]>>}

PrototypeTokens == {tFoo, tOne, tUnknownLong, tHelp, tUndefined}

\* calls with definitions that JSON.parse made with the key "__proto__"
PrototypeCalls ==
  /\ definitions \in PrototypeSets
  /\ args \in ArgLists(PrototypeTokens, MaxArgs)
  /\ config \in PolicyConfigs

\* definition sets of two definitions over SetStrings whose second key is an
\* array index
IndexKeySets ==
  {<<[key |-> kS, s |-> a], [key |-> kOne, s |-> b]>> : a, b \in SetStrings}

\* calls with a key of the definitions that for-in visits before the keys
\* created before it
IndexKeyCalls ==
  /\ definitions \in IndexKeySets
  /\ args \in {<<>>, <<tFooEqX>>, <<tUnknownLong>>, <<tWord>>}
  /\ config \in PolicyConfigs

\* calls with unknown flags that new RegExp reads as patterns
PatternCalls ==
  /\ definitions \in Single(kS, {DefString(sNone, lHelp, yBoolean, dNone, eText)})
  /\ args \in ArgLists(PatternTokens, MaxArgs)
  /\ config \in ErrorConfigs

Init ==
  /\ \/ DefinitionCalls
     \/ TokenCalls
     \/ BooleanCalls
     \/ HelpCalls
     \/ ArrayCalls
     \/ StringCalls
     \/ UnknownCalls
     \/ TargetCalls
     \/ InheritedCalls
     \/ PatternCalls
     \/ PrototypeCalls
     \/ IndexKeyCalls
  /\ pc = "parseDefinitions"
  /\ defs = <<>>
  /\ parsed = NoParsed
  /\ validated = NoValidated
  /\ outcome = Pending
  /\ stdout = <<>>
  /\ stderr = <<>>
  /\ helpText = <<>>
  /\ helpExit = -1
  /\ helpThrown = NoError

Spec == Init /\ [][Next]_vars


-----------------------------------------------------------------------------
(* Properties of parseArgs.  The expected values below are written from the *)
(* definition strings and the tokens of the call, not from the functions    *)
(* above.                                                                   *)

Done == pc = "done"

\* the call ended in a validation failure: the error thrown or the exit with 1
FailedValidation ==
  /\ ~validated.ok
  /\ validated.err.kind = "ValidationError"
  /\ \/ outcome = Exited(1)
     \/ outcome = Thrown(validated.err)

\* the only definition of the call is the string s
OnlyDefinition(s) == Len(definitions) = 1 /\ definitions[1].s = s

\* the only definition of the call has the character c
OnlyDefinitionHas(c) ==
  Len(definitions) = 1 /\ \E i \in 1..Len(definitions[1].s) : definitions[1].s[i] = c

\* the value v is of the declared type
ValueHasType(v, type) ==
  CASE type = "boolean" -> v.t = "bool"
    [] type = "number" -> v.t \in {"num", "null"}
    [] type = "string" -> v.t \in {"str", "null"}
    [] type = "number[]" -> v.t = "arr" /\ \A n \in 1..Len(v.a) : v.a[n].t = "num"
    [] type = "string[]" -> v.t = "arr" /\ \A n \in 1..Len(v.a) : v.a[n].t = "str"
    [] OTHER -> FALSE

\* C1: whenever parseArgs returns normally, options has exactly the keys of
\* the definition set, each value is of the declared type of its key (null
\* only for an optional number or string), and the value of a required
\* option is not null.
C1_OptionsMatchTypes ==
  outcome.kind = "returned" =>
    /\ Len(validated.options) = Len(definitions)
    /\ \A n \in 1..Len(definitions) :
         \E m \in 1..Len(validated.options), d \in 1..Len(defs) :
           /\ validated.options[m].key = definitions[n].key
           /\ defs[d].own
           /\ defs[d].key = definitions[n].key
           /\ ValueHasType(validated.options[m].value, defs[d].def.type)
           /\ defs[d].def.required => validated.options[m].value # Null

\* the definitions { "__proto__": "-a,--foo:boolean" } of JSON.parse: options
\* has the six keys of a parsed definition, each undefined, and no key
\* "__proto__"
C1_InheritedKeys ==
  /\ outcome.kind = "returned"
  /\ definitions = <<[key |-> kProto, s |-> DefString(sA, lFoo, yBoolean, dNone, eNone)]>>
  /\ args = <<>>
  /\ validated.options =
       [n \in 1..6 |-> [key |-> <<kShort, kLong, kType, kRequired, kDefaultValue, kDescription>>[n],
                        value |-> Null]]

\* a string[] option given a number-like value returns it as text
C1_TextOfNumber ==
  /\ outcome.kind = "returned"
  /\ OnlyDefinition(DefString(sA, lFoo, yStrings, dNone, eNone))
  /\ args = <<tFooEqOne, tWord>>
  /\ validated.options = <<[key |-> kS, value |-> Arr(<<Str(<<"1">>)>>)]>>

\* the value a =default clause declares
DeclaredDefault(clause) ==
  CASE clause = dTrue -> Bool(TRUE)
    [] clause = dOne -> Num(1)
    [] clause = dZero -> Num(0)
    [] clause = dNull -> Null
    [] clause = dStr -> Str(<<"x">>)
    [] clause = dEmptyStr -> Str(<<>>)
    [] clause = dSemiStr -> Str(<<";", "\"">>)
    [] clause = dNums -> Arr(<<Num(2), Num(1)>>)
    [] clause = dStrs -> Arr(<<Str(<<"y">>), Str(<<"x">>)>>)
    [] clause = dEmptyArr -> Arr(<<>>)
    [] clause = dBoolArr -> Arr(<<Bool(TRUE)>>)
    [] clause = dMixedArr -> Arr(<<Num(1), Str(<<"x">>)>>)
    [] clause = dHuge -> Infinity(FALSE)

\* the type a type part declares
DeclaredType(ty) ==
  CASE ty = yBoolean -> "boolean"
    [] ty = yNumber -> "number"
    [] ty = yString -> "string"
    [] ty \in {yNumbers, ySpaced} -> "number[]"
    [] ty = yStrings -> "string[]"

\* the default of a type that declares none
ImplicitDefault(type) ==
  CASE type = "boolean" -> Bool(FALSE)
    [] type \in {"number", "string"} -> Null
    [] type \in {"number[]", "string[]"} -> Arr(<<>>)

\* the =default clauses that are of the type
WellTypedDefaults(type) ==
  CASE type = "boolean" -> {dTrue}
    [] type = "number" -> {dOne, dZero, dHuge}
    [] type = "string" -> {dStr, dEmptyStr, dSemiStr}
    [] type = "number[]" -> {dNums, dEmptyArr}
    [] type = "string[]" -> {dStrs, dEmptyArr}

\* the clauses of a definition of the type that parses and is not a required
\* number or string
DefaultingClauses(type) ==
  WellTypedDefaults(type) \cup {dNone}
  \cup (IF type \in {"number", "string"} THEN {} ELSE {dRequired})

\* the value an option of the type resolves to when no token names it
ResolvedDefault(type, clause) ==
  IF clause \in {dNone, dRequired} THEN ImplicitDefault(type) ELSE DeclaredDefault(clause)

\* the long names of the options the calls define
OptionNames == {lFoo, lToString}

\* the end of a call that resolved its options: they are returned, or the
\* help is shown because the key help resolved to true
ReturnsOrShowsHelp ==
  IF config.handleHelp /\ [key |-> kHelp, value |-> Bool(TRUE)] \in
                            {validated.options[n] : n \in 1..Len(validated.options)}
  THEN outcome = Exited(0)
  ELSE outcome = Returned

\* C2: for a definition that parses and is not a required number or string,
\* the empty token list resolves the key to its declared default (an array
\* default with its elements in the written order) or, with no default, to
\* the implicit default of its type, and parseArgs ends with these options
\* (requireTarget being off); every key of a set of definitions without
\* defaults resolves to the implicit default of its type.
C2_EmptyArgsGiveDefaults ==
  (Done /\ args = <<>> /\ ~Truthy(config.requireTarget)) =>
    /\ \A sh \in {sNone, sA}, lg \in OptionNames, ty \in GoodTypes \cup {ySpaced},
          e \in {eNone, eText} :
         \A cl \in DefaultingClauses(DeclaredType(ty)) :
           OnlyDefinition(DefString(sh, lg, ty, cl, e)) =>
             /\ validated.ok
             /\ validated.options =
                  <<[key |-> definitions[1].key,
                     value |-> ResolvedDefault(DeclaredType(ty), cl)]>>
             /\ ReturnsOrShowsHelp
    /\ (/\ Len(definitions) > 1
        /\ Len(defs) = Len(definitions)
        /\ \A n \in 1..Len(defs) :
             ~(defs[n].def.required /\ defs[n].def.type \in {"number", "string"})) =>
         /\ validated.ok
         /\ Len(validated.options) = Len(defs)
         /\ \A n \in 1..Len(defs) :
              validated.options[n] =
                [key |-> definitions[n].key, value |-> ImplicitDefault(defs[n].def.type)]
         /\ ReturnsOrShowsHelp

\* a number[] default written [ 2 , 1 ] is returned as [2, 1]
C2_ArrayDefaultInOrder ==
  /\ Done
  /\ args = <<>>
  /\ OnlyDefinition(DefString(sA, lFoo, ySpaced, dNums, eText))
  /\ outcome = Returned
  /\ validated.options = <<[key |-> kS, value |-> Arr(<<Num(2), Num(1)>>)]>>

\* --toString:string with no token: the method inherited by the object of
\* parsed values is taken for the value of the option
C2_InheritedValueFound ==
  /\ Done
  /\ args = <<>>
  /\ OnlyDefinition(DefString(sNone, lToString, yString, dNone, eNone))
  /\ parsed.kv = <<>>
  /\ outcome = Thrown(ValidationError(<<"-", "-", "t", "o", "S", "t", "r", "i", "n", "g",
                                        " should be a string">>))

\* definition strings outside the grammar: no --long name, no comma after the
\* short name, a type that is not one of the five, no type, an unclosed [],
\* text after the definition that no ; introduces, the empty string
UngrammaticalStrings ==
  {<<>>,
   DefString(sNone, lNoDashes, yNumber, dNone, eNone),
   DefString(<<"-", "a">>, lFoo, yNumber, dNone, eNone),
   DefString(sA, lFoo, yInt, dNone, eNone),
   DefString(sA, lFoo, yMissing, dNone, eNone),
   DefString(sA, lFoo, yOpenBracket, dNone, eNone),
   DefString(sNone, lFoo, yString, dNone, eNoSemicolon),
   DefString(sNone, lFoo, yNumber, dOne, eNoSemicolon),
   DefString(sNone, lFoo, yBoolean, dRequired, eNoSemicolon)}

\* C3: parseArgs fails with a SettingsError for every definition string that
\* does not match the definition grammar.
C3_UngrammaticalIsSettingsError ==
  (Done /\ Len(definitions) = 1 /\ definitions[1].s \in UngrammaticalStrings) =>
    /\ outcome.kind = "thrown"
    /\ outcome.error.kind = "SettingsError"

\* the type int is rejected with an Error that is not a SettingsError
C3_PlainError ==
  /\ Done
  /\ OnlyDefinition(DefString(sA, lFoo, yInt, dNone, eNone))
  /\ outcome.kind = "thrown"
  /\ outcome.error.kind = "Error"
  /\ StartsWith(outcome.error.message, <<"Syntax Error: ">>)

\* the definition strings of --foo whose =default literal JSON cannot decode
\* or decodes to a value that is not of the declared type
BadDefaultStrings ==
  UNION {{DefString(sh, lFoo, ty, cl, e) :
            cl \in (DecodableDefaults \cup UndecodableDefaults) \ WellTypedDefaults(DeclaredType(ty))} :
         sh \in {sNone, sA}, ty \in GoodTypes \cup {ySpaced}, e \in {eNone, eText}}

\* C4: for every token list, a definition whose =default literal JSON cannot
\* decode, or decodes to a value that is not of the declared type, makes
\* parseArgs throw a SettingsError, with nothing written.
C4_BadDefaultIsSettingsError ==
  (Done /\ Len(definitions) = 1 /\ definitions[1].s \in BadDefaultStrings) =>
    /\ outcome.kind = "thrown"
    /\ outcome.error.kind = "SettingsError"
    /\ stdout = <<>>
    /\ stderr = <<>>

\* number[]=[1,"x"] is rejected whatever the tokens are
C4_Witness ==
  /\ Done
  /\ OnlyDefinition(DefString(sNone, lFoo, yNumbers, dMixedArr, eNone))
  /\ args = <<tFooEqX>>
  /\ outcome.kind = "thrown"
  /\ outcome.error =
       SettingsError(<<"The default value of ", "f", "o", "o", " should be ",
                       "an array of number", ": ">> \o Tail(dMixedArr))

\* the names of a definition string of SetStrings: the short one, if any,
\* then the long one
NamesOfString(s) ==
  CASE s = DefString(sA, lFoo, yBoolean, dNone, eNone) -> << <<"a">>, <<"f", "o", "o">> >>
    [] s = DefString(sNone, lFoo, yString, dNone, eNone) -> << <<"f", "o", "o">> >>
    [] s = DefString(sNone, lA, yString, dNone, eNone) -> << <<"a">> >>
    [] s = DefString(sA, lBar, yStrings, dNone, eNone) -> << <<"a">>, <<"b", "a", "r">> >>
    [] s = DefString(<<"-", "b", ",">>, lBar, yNumber, dRequired, eNone) ->
         << <<"b">>, <<"b", "a", "r">> >>
    [] OTHER -> <<>>

\* the flag names of a definition set, in order
RECURSIVE NamesOfSet(_)
NamesOfSet(ds) == IF ds = <<>> THEN <<>> ELSE NamesOfString(Head(ds).s) \o NamesOfSet(Tail(ds))

\* the names that occur more than once
RepeatedNames(names) ==
  {names[i] : i \in {k \in 1..Len(names) : \E j \in 1..Len(names) : j # k /\ names[j] = names[k]}}

\* the names of a message part "a, b, c"
RECURSIVE NamesListed(_, _)
NamesListed(items, name) ==
  IF items = <<>> THEN {name}
  ELSE IF Head(items) = ", " THEN {name} \cup NamesListed(Tail(items), <<>>)
  ELSE NamesListed(Tail(items), Append(name, Head(items)))

IsDuplicateError(e) ==
  e.kind = "SettingsError" /\ StartsWith(e.message, <<"Duplicated keys found: ">>)

\* C5: a definition set in which a flag name occurs more than once (short or
\* long, in one definition or across definitions) makes parseArgs throw a
\* SettingsError whose message lists exactly the repeated names; a set with
\* no repeated name never raises this error.
C5_DuplicatesAllNamed ==
  (Done /\ \A n \in 1..Len(definitions) : NamesOfString(definitions[n].s) # <<>>) =>
    IF RepeatedNames(NamesOfSet(definitions)) # {}
    THEN /\ outcome.kind = "thrown"
         /\ IsDuplicateError(outcome.error)
         /\ NamesListed(Tail(outcome.error.message), <<>>) = RepeatedNames(NamesOfSet(definitions))
    ELSE ~IsDuplicateError(outcome.error)

\* -a,--foo with -a,--bar, and -b,--bar with -a,--bar, report both names
C5_Witness ==
  /\ Done
  /\ Len(definitions) = 2
  /\ outcome.error = SettingsError(<<"Duplicated keys found: ", "a", ", ", "b", "a", "r">>)

\* C6: a configuration error is thrown as it is, for every token list and
\* every exitOnError, handleHelp and requireTarget: the tokens are never
\* parsed, nothing is written to stdout or stderr and the process does not
\* exit.
C6_ConfigurationErrorsThrown ==
  (Done /\ (\/ Len(definitions) > 1 /\ RepeatedNames(NamesOfSet(definitions)) # {}
            \/ Len(definitions) = 1 /\ definitions[1].s \in UngrammaticalStrings
            \/ Len(definitions) = 1 /\ definitions[1].s \in BadDefaultStrings)) =>
    /\ outcome.kind = "thrown"
    /\ outcome.error.kind \in {"SettingsError", "Error"}
    /\ outcome.error = parseDefinitions(definitions).err
    /\ parsed = NoParsed
    /\ validated = NoValidated
    /\ stdout = <<>>
    /\ stderr = <<>>

\* an undecodable default with every policy that could print or exit, and
\* an unknown flag in the tokens
C6_Witness ==
  /\ Done
  /\ OnlyDefinition(DefString(sA, lFoo, yNumber, dBareWord, eText))
  /\ args = <<tUnknownLong>>
  /\ config.exitOnError
  /\ config.handleHelp
  /\ config.requireTarget = Bool(TRUE)
  /\ outcome = Thrown(SettingsError(<<"Could not parse default value of ", "f", "o", "o", ": ", "x">>))
  /\ stderr = <<>>

\* C7: on every validation error, with exitOnError parseArgs writes the error
\* message and then the help text to stderr, writes nothing to stdout, exits
\* with status 1 and returns nothing; without exitOnError it writes nothing,
\* does not exit, and throws the ValidationError.
C7_ExitOnErrorPolicy ==
  (Done /\ validated.err.kind = "ValidationError") =>
    /\ stdout = <<>>
    /\ IF config.exitOnError
       THEN /\ outcome = Exited(1)
            /\ Len(stderr) = 2
            /\ stderr[1] = <<"Error: ">> \o validated.err.message
            /\ makeHelp(config.usage, defs).ok
            /\ stderr[2] = makeHelp(config.usage, defs).s
       ELSE /\ outcome = Thrown(validated.err)
            /\ stderr = <<>>

\* requireTarget: true and no target, with exitOnError: the error has no
\* message, only the help is written
C7_NoMessageWritten ==
  /\ Done
  /\ config.exitOnError
  /\ config.requireTarget = Bool(TRUE)
  /\ args = <<>>
  /\ OnlyDefinition(DefString(sA, lFoo, yBoolean, dNone, eNone))
  /\ validated.err = ValidationError(<<>>)
  /\ outcome = Exited(1)
  /\ stderr = << <<"Options:\n">> \o <<" ", " ", "-", "a", ",", " ", "-", "-", "f", "o", "o", " ", "\n">> >>

\* an unknown flag with exitOnError and the definitions
\* { "__proto__": "-a,--foo:boolean" }: the message is written, then makeHelp
\* throws a TypeError, no help is written and the process does not exit
C7_HelpThrows ==
  /\ Done
  /\ config.exitOnError
  /\ definitions = <<[key |-> kProto, s |-> DefString(sA, lFoo, yBoolean, dNone, eNone)]>>
  /\ args = <<tUnknownLong>>
  /\ validated.err = ValidationError(<<"unknown option: ", "-", "-", "z", "z">>)
  /\ outcome.kind = "thrown"
  /\ outcome.error.kind = "TypeError"
  /\ stderr = << <<"Error: ", "unknown option: ", "-", "-", "z", "z">> >>

\* an unknown flag with exitOnError: the message, then the help, then exit 1
C7_MessageThenHelp ==
  /\ Done
  /\ config.exitOnError
  /\ args = <<tFoo>>
  /\ OnlyDefinition(DefString(sNone, lHelp, yBoolean, dNone, eText))
  /\ config.usage = Str(usageText)
  /\ outcome = Exited(1)
  /\ Len(stderr) = 2
  /\ stderr[1] = <<"Error: ", "unknown option: ", "-", "-", "f", "o", "o">>
  /\ StartsWith(stderr[2], <<"Usage: ", "c", "m", "d", "\n", "Options:\n">>)

\* the flag tokens of the boolean definition strings declared under a key
FlagsOfString(s) ==
  CASE s = DefString(sNone, lHelp, yBoolean, dNone, eText) -> {tHelp}
    [] s = DefString(sA, lFoo, yBoolean, dNone, eNone) -> {tA, tFoo}
    [] s = DefString(sNone, lFoo, yBoolean, dTrue, eNone) -> {tFoo}
    [] OTHER -> {}

\* the tokens before the first "--"
TokensBeforeDashDash ==
  {args[i] : i \in {k \in 1..Len(args) : \A j \in 1..k : args[j] # tDashDash}}

\* C8: with handleHelp on and a boolean option declared under the key help,
\* every token list with that option's flag before the first "--" ends with
\* the help text on stdout and exit status 0, whatever else the tokens hold
\* and whatever requireTarget and exitOnError are.
C8_HelpAlwaysShown ==
  (/\ Done
   /\ config.handleHelp
   /\ Len(definitions) = 1
   /\ definitions[1].key = kHelp
   /\ FlagsOfString(definitions[1].s) \cap TokensBeforeDashDash # {}) =>
    /\ outcome = Exited(0)
    /\ stdout = <<makeHelp(config.usage, defs).s>>
    /\ stderr = <<>>

\* --help with requireTarget on and no target ends in the validation error
C8_HelpLosesToValidation ==
  /\ Done
  /\ config.handleHelp
  /\ ~config.exitOnError
  /\ config.requireTarget = Bool(TRUE)
  /\ definitions = <<[key |-> kHelp, s |-> DefString(sNone, lHelp, yBoolean, dNone, eText)]>>
  /\ args = <<tHelp>>
  /\ outcome = Thrown(ValidationError(<<>>))
  /\ stdout = <<>>

\* no token before the first "--" names the option lg (or -a, its short
\* alias when sh declares one)
NoRawValue(sh, lg) ==
  \A tok \in TokensBeforeDashDash :
    /\ ~StartsWith(tok, lg)
    /\ ~StartsWith(tok, <<"-", "-", "n", "o", "-">> \o SubSeq(lg, 3, Len(lg)))
    /\ sh = sA => ~StartsWith(tok, tA)

\* no token before the first "--" is a flag
OnlyTargets == \A tok \in TokensBeforeDashDash : ~StartsWith(tok, <<"-">>)

\* the requireTarget check does not fail
TargetGiven ==
  \/ ~Truthy(config.requireTarget)
  \/ \E tok \in TokensBeforeDashDash : ~StartsWith(tok, <<"-">>)

\* the message that names every alias of the option lg and says it is required
RequiredText(sh, lg) ==
  (IF sh = sA THEN <<"-", "a", " or ">> ELSE <<>>) \o lg \o <<" is required">>

\* C9: when no token supplies a value for a required option, a number or
\* string option makes parseArgs fail with a validation error, which (the
\* requireTarget check, made first, being passed) is the ValidationError whose
\* message names every alias of the option and says it is required; a
\* boolean, number[] or string[] option resolves to false or [] and, no other
\* rule being broken, parsing succeeds.
C9_RequiredWithoutValue ==
  (Done /\ OnlyDefinitionHas("!")) =>
    \A sh \in {sNone, sA}, lg \in OptionNames, ty \in GoodTypes, e \in {eNone, eText} :
      (definitions[1].s = DefString(sh, lg, ty, dRequired, e) /\ NoRawValue(sh, lg)) =>
        IF ty \in {yNumber, yString}
        THEN /\ FailedValidation
             /\ TargetGiven => validated.err = ValidationError(RequiredText(sh, lg))
        ELSE /\ (TargetGiven /\ OnlyTargets) => validated.ok
             /\ validated.ok =>
                  validated.options =
                    <<[key |-> definitions[1].key,
                       value |-> IF ty = yBoolean THEN Bool(FALSE) ELSE Arr(<<>>)]>>

\* -a,--foo:string! with a target and no flag: both aliases are named
C9_BothAliasesNamed ==
  /\ Done
  /\ OnlyDefinition(DefString(sA, lFoo, yString, dRequired, eNone))
  /\ args = <<tWord, tUnknownLong>>
  /\ ~config.exitOnError
  /\ outcome = Thrown(ValidationError(<<"-", "a", " or ", "-", "-", "f", "o", "o", " is required">>))

\* -a,--toString:string! with a target and no flag: the method inherited by the
\* object of parsed values is taken for the value, which is no string
C9_InheritedValueFound ==
  /\ Done
  /\ OnlyDefinition(DefString(sA, lToString, yString, dRequired, eNone))
  /\ args = <<tWord>>
  /\ parsed.kv = <<>>
  /\ outcome = Thrown(ValidationError(<<"-", "-", "t", "o", "S", "t", "r", "i", "n", "g",
                                        " should be a string">>))

\* C10: for the boolean option --foo, a token --foo=<anything> before the
\* first "--" always makes parseArgs fail with a ValidationError; when the
\* only such tokens come after "--" and nothing precedes "--", parseArgs
\* returns and rest is the tokens after "--" as written; and -a1 before "--"
\* fails with the ValidationError "-a should be a boolean".
C10_BooleanTakesNoValue ==
  (Done /\ Len(definitions) = 1 /\ definitions[1].s \in BooleanStrings /\ definitions[1].key = kS) =>
    /\ (\E tok \in TokensBeforeDashDash : StartsWith(tok, tFooEq)) => FailedValidation
    /\ (Len(args) >= 2 /\ args[1] = tDashDash /\ StartsWith(args[2], tFooEq)) =>
         /\ outcome = Returned
         /\ validated.rest = Tail(args)
    /\ (definitions[1].s = DefString(sA, lFoo, yBoolean, dNone, eNone)
        /\ tAOne \in TokensBeforeDashDash
        /\ \A tok \in TokensBeforeDashDash : ~StartsWith(tok, tFooEq)) =>
         /\ FailedValidation
         /\ validated.err = ValidationError(<<"-", "a", " should be a boolean">>)

\* -a1 followed by -a returns true for the option
C10_ValueOverwritten ==
  /\ Done
  /\ OnlyDefinition(DefString(sA, lFoo, yBoolean, dNone, eNone))
  /\ args = <<tAOne, tA>>
  /\ outcome = Returned
  /\ validated.options = <<[key |-> kS, value |-> Bool(TRUE)]>>

\* --foo= with a value of two lines returns true for the option
C10_ValueOfTwoLines ==
  /\ Done
  /\ OnlyDefinition(DefString(sA, lFoo, yBoolean, dNone, eNone))
  /\ args = <<tFooEqLines>>
  /\ outcome = Returned
  /\ validated.options = <<[key |-> kS, value |-> Bool(TRUE)]>>

\* every token of the call is one of ts
TokensAmong(ts) == \A i \in 1..Len(args) : args[i] \in ts

\* the texts given through <lg>=<text>, in token order
RECURSIVE LongGiven(_, _)
LongGiven(lg, tokens) ==
  IF tokens = <<>> THEN <<>>
  ELSE (CASE Head(tokens) = lg \o <<"=", "1">> -> <<<<"1">>>>
          [] Head(tokens) = lg \o <<"=", "x">> -> <<<<"x">>>>
          [] OTHER -> <<>>) \o LongGiven(lg, Tail(tokens))

\* the tokens that give values to the array option -a, lg
ArrayTokensOf(lg) == {lg \o <<"=", "1">>, lg \o <<"=", "x">>, tAOne, tATwo, tA, tWord}

\* the texts given through -a<text> and -a <text>, in token order
RECURSIVE ShortGiven(_)
ShortGiven(tokens) ==
  IF tokens = <<>> THEN <<>>
  ELSE (CASE Head(tokens) = tAOne -> <<<<"1">>>>
          [] Head(tokens) = tATwo -> <<<<"2">>>>
          [] Head(tokens) = tA /\ Len(tokens) > 1 /\ tokens[2] = tWord -> <<<<"x">>>>
          [] OTHER -> <<>>) \o ShortGiven(Tail(tokens))

\* -a is followed by its value wherever it stands alone
EveryShortHasValue ==
  \A i \in 1..Len(args) : args[i] = tA => (i < Len(args) /\ args[i + 1] = tWord)

\* the number a text of digits denotes
GivenNumber(text) == IF text = <<"1">> THEN Num(1) ELSE Num(2)

\* C11: for a number[] or string[] option with both aliases, the resolved
\* value is the values given through the long alias in token order, followed
\* by the values given through the short alias in token order, however the
\* occurrences are ordered or interleaved; one occurrence gives one element
\* (every occurrence carrying its value, requireTarget being off).
C11_LongValuesThenShort ==
  \A lg \in OptionNames :
    (/\ Done
     /\ TokensAmong(ArrayTokensOf(lg)) /\ EveryShortHasValue
     /\ ~Truthy(config.requireTarget)) =>
      LET given == LongGiven(lg, args) \o ShortGiven(args)
      IN /\ OnlyDefinition(DefString(sA, lg, yStrings, dNone, eNone)) =>
              /\ outcome = Returned
              /\ validated.options =
                   <<[key |-> kS, value |-> Arr([n \in 1..Len(given) |-> Str(given[n])])]>>
         /\ (/\ OnlyDefinition(DefString(sA, lg, yNumbers, dNone, eNone))
             /\ \A n \in 1..Len(given) : given[n] # <<"x">>) =>
              /\ outcome = Returned
              /\ validated.options =
                   <<[key |-> kS,
                      value |-> Arr([n \in 1..Len(given) |-> GivenNumber(given[n])])]>>

\* -a2 --foo=1 gives [1, 2], and -a1 --foo=x -a2 gives ["x", "1", "2"]
C11_LongBeforeShort ==
  \/ /\ outcome = Returned
     /\ OnlyDefinition(DefString(sA, lFoo, yNumbers, dNone, eNone))
     /\ args = <<tATwo, tFooEqOne>>
     /\ validated.options = <<[key |-> kS, value |-> Arr(<<Num(1), Num(2)>>)]>>
  \/ /\ outcome = Returned
     /\ OnlyDefinition(DefString(sA, lFoo, yStrings, dNone, eNone))
     /\ args = <<tAOne, tFooEqX, tATwo>>
     /\ validated.options =
          <<[key |-> kS, value |-> Arr(<<Str(<<"x">>), Str(<<"1">>), Str(<<"2">>)>>)]>>

\* -a1 for -a,--toString:number[]: the method inherited by the object of
\* parsed values is collected as the value given through the long alias
C11_InheritedValueCollected ==
  /\ Done
  /\ OnlyDefinition(DefString(sA, lToString, yNumbers, dNone, eNone))
  /\ args = <<tAOne>>
  /\ parsed.kv = <<[k |-> <<"a">>, v |-> Num(1)]>>
  /\ outcome = Thrown(ValidationError(<<"All value of ",
                                        "-", "-", "t", "o", "S", "t", "r", "i", "n", "g",
                                        " should be a number">>))

\* the text a token of StringTokens gives through --foo=<text>
RECURSIVE LongTexts(_)
LongTexts(tokens) ==
  IF tokens = <<>> THEN <<>>
  ELSE (CASE Head(tokens) = tFooEq -> <<<<>>>>
          [] Head(tokens) = tFooEqOne -> <<<<"1">>>>
          [] Head(tokens) = tFooEqZeroOne -> <<<<"0", "1">>>>
          [] Head(tokens) = tFooEqX -> <<<<"x">>>>
          [] OTHER -> <<>>) \o LongTexts(Tail(tokens))

\* the text a token of StringTokens gives through -a<text> or -a <text>
RECURSIVE ShortTexts(_)
ShortTexts(tokens) ==
  IF tokens = <<>> THEN <<>>
  ELSE (CASE Head(tokens) = tAOne -> <<<<"1">>>>
          [] Head(tokens) = tA /\ Len(tokens) > 1 /\ tokens[2] = tOne -> <<<<"1">>>>
          [] OTHER -> <<>>) \o ShortTexts(Tail(tokens))

\* -a is followed by the token 1 wherever it stands alone
EveryShortHasText ==
  \A i \in 1..Len(args) : args[i] = tA => (i < Len(args) /\ args[i + 1] = tOne)

\* C12: the resolved value of a string option is the text supplied on the
\* command line, and each element of a string[] option is the text supplied
\* for it: a number-like value gives its text, never a number or an error,
\* and --foo= gives the empty string (requireTarget being off, every -a
\* carrying a value, a string option being given one value).
C12_StringIsTheTextGiven ==
  (Done /\ TokensAmong(StringTokens) /\ EveryShortHasText /\ ~Truthy(config.requireTarget)) =>
    LET given == LongTexts(args) \o ShortTexts(args)
    IN /\ (OnlyDefinition(DefString(sA, lFoo, yString, dNone, eNone)) /\ Len(given) = 1) =>
            /\ outcome = Returned
            /\ validated.options = <<[key |-> kS, value |-> Str(given[1])]>>
       /\ OnlyDefinition(DefString(sA, lFoo, yStrings, dNone, eNone)) =>
            /\ outcome = Returned
            /\ validated.options =
                 <<[key |-> kS, value |-> Arr([n \in 1..Len(given) |-> Str(given[n])])]>>

\* --foo=01 resolves to "1"
C12_LeadingZeroLost ==
  /\ outcome = Returned
  /\ OnlyDefinition(DefString(sA, lFoo, yString, dNone, eNone))
  /\ args = <<tFooEqZeroOne>>
  /\ validated.options = <<[key |-> kS, value |-> Str(<<"1">>)]>>

\* --foo=, --foo=1, -a1 and -a 1 resolve to "", "1", "1" and "1"
C12_EmptyAndNumberLike ==
  /\ outcome = Returned
  /\ OnlyDefinition(DefString(sA, lFoo, yString, dNone, eNone))
  /\ \/ args = <<tFooEq>> /\ validated.options = <<[key |-> kS, value |-> Str(<<>>)]>>
     \/ args = <<tFooEqOne>> /\ validated.options = <<[key |-> kS, value |-> Str(<<"1">>)]>>
     \/ args = <<tAOne>> /\ validated.options = <<[key |-> kS, value |-> Str(<<"1">>)]>>
     \/ args = <<tA, tOne>> /\ validated.options = <<[key |-> kS, value |-> Str(<<"1">>)]>>

\* the tokens that give -a or lg a value, with the word a value may be
ValueTokens(lg) == {lg \o <<"=", "1">>, lg \o <<"=", "x">>, tAOne, tATwo, tA, lg, tWord}

\* the number of values the tokens give to -a and lg
RECURSIVE ValuesGiven(_, _)
ValuesGiven(lg, tokens) ==
  IF tokens = <<>> THEN 0
  ELSE (IF \/ Head(tokens) \in {lg \o <<"=", "1">>, lg \o <<"=", "x">>, tAOne, tATwo}
           \/ Head(tokens) \in {tA, lg} /\ Len(tokens) > 1 /\ tokens[2] = tWord
        THEN 1 ELSE 0) + ValuesGiven(lg, Tail(tokens))

\* -a and lg are followed by a word wherever they stand alone
EveryFlagHasValue(lg) ==
  \A i \in 1..Len(args) : args[i] \in {tA, lg} => (i < Len(args) /\ args[i + 1] = tWord)

\* the definitions of a number or string option with the aliases -a and lg
SingleValueStrings(lg) ==
  {DefString(sA, lg, yNumber, dNone, eNone), DefString(sA, lg, yString, dNone, eNone),
   DefString(sA, lg, yNumber, dOne, eNone), DefString(sA, lg, yString, dRequired, eNone)}

MultipleValues(name) == name \o <<" should not have multiple values">>

\* C13: a number or string option that is given more than one value, by
\* repeating an alias or through both aliases, makes parseArgs fail with a
\* ValidationError "<alias> should not have multiple values"; no value is
\* picked (requireTarget being off).
C13_MultipleValuesRejected ==
  \A lg \in OptionNames :
    (/\ Done
     /\ Len(definitions) = 1 /\ definitions[1].s \in SingleValueStrings(lg)
     /\ TokensAmong(ValueTokens(lg)) /\ EveryFlagHasValue(lg)
     /\ ValuesGiven(lg, args) > 1
     /\ ~Truthy(config.requireTarget)) =>
      /\ FailedValidation
      /\ validated.err.message \in {MultipleValues(<<"-", "a">>), MultipleValues(lg)}

\* --foo=1 --foo=x, and -a1 --foo=1, for a number option
C13_BothWaysRejected ==
  /\ FailedValidation
  /\ OnlyDefinition(DefString(sA, lFoo, yNumber, dNone, eNone))
  /\ \/ args = <<tFooEqOne, tFooEqX>>
     \/ args = <<tAOne, tFooEqOne>>
  /\ validated.err.message = MultipleValues(<<"-", "-", "f", "o", "o">>)

\* --toString=1 --toString=1 for -a,--toString:number: the tokenizer throws
\* on the first token, and no ValidationError is made
C13_TokenizerThrows ==
  /\ Done
  /\ OnlyDefinition(DefString(sA, lToString, yNumber, dNone, eNone))
  /\ args = <<tToStringEqOne, tToStringEqOne>>
  /\ validated = NoValidated
  /\ outcome = Thrown([kind |-> "TypeError",
                       message |-> <<"(aliases[key] || []).forEach is not a function">>])

\* the number of tokens that are the flag -a or --foo
RECURSIVE FlagOccurrences(_)
FlagOccurrences(tokens) ==
  IF tokens = <<>> THEN 0
  ELSE (IF Head(tokens) \in {tA, tFoo} THEN 1 ELSE 0) + FlagOccurrences(Tail(tokens))

\* C14: for a boolean option, more than one occurrence of its flag before --,
\* the same alias repeated or one occurrence through each alias, makes
\* parseArgs fail with a ValidationError instead of returning true
\* (requireTarget being off).
C14_RepeatedBooleanRejected ==
  (/\ Done
   /\ OnlyDefinition(DefString(sA, lFoo, yBoolean, dNone, eNone))
   /\ TokensAmong({tA, tFoo, tWord})
   /\ FlagOccurrences(args) > 1
   /\ ~Truthy(config.requireTarget)) =>
    FailedValidation

\* --foo --foo returns true
C14_RepeatedFlagAccepted ==
  /\ outcome = Returned
  /\ OnlyDefinition(DefString(sA, lFoo, yBoolean, dNone, eNone))
  /\ args = <<tFoo, tFoo>>
  /\ validated.options = <<[key |-> kS, value |-> Bool(TRUE)]>>

\* -a --foo fails: one occurrence through each alias is rejected
C14_BothAliasesRejected ==
  /\ FailedValidation
  /\ OnlyDefinition(DefString(sA, lFoo, yBoolean, dNone, eNone))
  /\ args = <<tA, tFoo>>
  /\ validated.err.message = MultipleValues(<<"-", "-", "f", "o", "o">>)

\* the name of a flag token with the prefix it has in the token list; --no-zz
\* may be named as written or as the zz it negates
FlagNames(token) ==
  CASE token \in {tUnknownLong, tUnknownEq, tUnknownEqOne} -> {<<"-", "-", "z", "z">>}
    [] token \in {tUnknownShort, tUnknownShortOne} -> {<<"-", "z">>}
    [] token = tNoUnknown -> {<<"-", "-", "n", "o", "-", "z", "z">>, <<"-", "-", "z", "z">>}
    [] token = tShortF -> {<<"-", "f">>}
    [] token = tFooEqOne -> {<<"-", "-", "f", "o", "o">>}
    [] OTHER -> {}

\* the flag tokens of UnknownTokens that the only definition declares
DeclaredTokens ==
  IF OnlyDefinition(DefString(sA, lFoo, yNumber, dOne, eNone)) THEN {tFooEqOne} ELSE {}

\* the positions before the first -- of the flag tokens no definition declares
UnknownPositions ==
  {i \in 1..Len(args) :
     /\ \A j \in 1..i : args[j] # tDashDash
     /\ FlagNames(args[i]) # {}
     /\ args[i] \notin DeclaredTokens}

UnknownOption(name) == <<"unknown option: ">> \o name

\* C15: a flag token before the first -- that names no declared alias makes
\* parseArgs fail with the ValidationError "unknown option: <token>", the
\* token being the unknown name with the - or -- it has in the token list,
\* wherever the flag stands and whatever is declared (the declared option
\* being given at most one value, requireTarget being off).
C15_UnknownOptionNamed ==
  (/\ Done
   /\ Len(definitions) = 1 /\ definitions[1].s \in UnknownStrings
   /\ TokensAmong(UnknownTokens)
   /\ UnknownPositions # {}
   /\ Cardinality({i \in 1..Len(args) : args[i] \in DeclaredTokens}) <= 1
   /\ ~Truthy(config.requireTarget)) =>
    /\ FailedValidation
    /\ \E i \in UnknownPositions : \E name \in FlagNames(args[i]) :
         validated.err.message = UnknownOption(name)

\* --no-zz is reported as "unknown option: undefined"
C15_NegatedFlagUnnamed ==
  /\ FailedValidation
  /\ OnlyDefinition(DefString(sA, lFoo, yNumber, dOne, eNone))
  /\ args = <<tNoUnknown>>
  /\ validated.err.message = UnknownOption(<<"undefined">>)

\* --foo=1 -f is reported as "unknown option: --f"
C15_PrefixOfAnotherToken ==
  /\ FailedValidation
  /\ OnlyDefinition(DefString(sA, lFoo, yNumber, dOne, eNone))
  /\ args = <<tFooEqOne, tShortF>>
  /\ validated.err.message = UnknownOption(<<"-", "-", "f">>)

\* -z, -z1, -z 1 are reported as -z, and --zz, --zz=, --zz=1 as --zz
C15_PrefixKept ==
  /\ FailedValidation
  /\ OnlyDefinition(DefString(sA, lFoo, yNumber, dOne, eNone))
  /\ \/ /\ args \in {<<tUnknownShort>>, <<tUnknownShortOne>>, <<tUnknownShort, tOne>>}
        /\ validated.err.message = UnknownOption(<<"-", "z">>)
     \/ /\ args \in {<<tUnknownLong>>, <<tUnknownEq>>, <<tUnknownEqOne>>}
        /\ validated.err.message = UnknownOption(<<"-", "-", "z", "z">>)

BooleanFoo == DefString(sA, lFoo, yBoolean, dNone, eNone)
StringFoo == DefString(sA, lFoo, yString, dNone, eNone)

\* the token at position i stands before the first --
BeforeFirstDashDash(i) == \A j \in 1..i : args[j] # tDashDash

\* the token at position i is the value of the flag before it: the option is
\* not a boolean and the token is a word that directly follows -a or --foo
ConsumedByFlag(i) ==
  /\ OnlyDefinition(StringFoo)
  /\ args[i] \in {tWord, tOne, tTrue}
  /\ i > 1 /\ args[i - 1] \in {tA, tFoo}

\* no token of the call is a target: every token before the first -- is a
\* flag or the value of a flag
NoTargetGiven ==
  \A i \in 1..Len(args) :
    BeforeFirstDashDash(i) => (args[i] \in {tA, tFoo} \/ ConsumedByFlag(i))

\* the tokens break no rule of the option: at most one flag, and the flag of
\* a string option is followed by its value
OptionRulesKept ==
  /\ FlagOccurrences(args) <= 1
  /\ OnlyDefinition(StringFoo) =>
       \A i \in 1..Len(args) :
         args[i] \in {tA, tFoo} => (i < Len(args) /\ args[i + 1] \in {tWord, tOne, tTrue})

\* C16: with requireTarget enabled and no target among the tokens (the tokens
\* after -- and the tokens consumed by flags are no targets), parseArgs fails
\* with a ValidationError that carries the configured message, or a generic
\* message when none is configured; with requireTarget off, a call without
\* targets that breaks no other rule returns its options (or shows the help).
C16_TargetRequired ==
  (/\ Done
   /\ Len(definitions) = 1 /\ definitions[1].s \in {BooleanFoo, StringFoo}
   /\ TokensAmong(TargetTokens)
   /\ NoTargetGiven) =>
    /\ config.requireTarget = Str(targetMessage) =>
         FailedValidation /\ validated.err.message = targetMessage
    /\ config.requireTarget = Bool(TRUE) =>
         FailedValidation /\ validated.err.message # <<>>
    /\ (config.requireTarget = Bool(FALSE) /\ OptionRulesKept) =>
         /\ validated.ok
         /\ validated.targets = <<>>
         /\ ReturnsOrShowsHelp

\* requireTarget: true and no token: the ValidationError has the empty message
C16_NoMessage ==
  /\ FailedValidation
  /\ OnlyDefinition(StringFoo)
  /\ config.requireTarget = Bool(TRUE)
  /\ args \in {<<>>, <<tFoo, tWord>>, <<tDashDash, tWord>>}
  /\ validated.err.message = <<>>

\* requireTarget: "<message>": --foo x and -- x fail with the message
C16_ConfiguredMessage ==
  /\ FailedValidation
  /\ OnlyDefinition(StringFoo)
  /\ config.requireTarget = Str(targetMessage)
  /\ args \in {<<tFoo, tWord>>, <<tDashDash, tWord>>}
  /\ validated.err.message = targetMessage

\* the position of the first --, or Len(args) + 1 when there is none
FirstDashDash ==
  IF \E i \in 1..Len(args) : args[i] = tDashDash
  THEN CHOOSE i \in 1..Len(args) : args[i] = tDashDash /\ BeforeFirstDashDash(i - 1)
  ELSE Len(args) + 1

\* the positions before the first -- of the positional tokens that no flag
\* consumes
TargetPositions ==
  {i \in 1..(FirstDashDash - 1) : args[i] \notin {tA, tFoo} /\ ~ConsumedByFlag(i)}

\* the tokens at the positions ps, in their order, as strings
RECURSIVE TokensAt(_, _)
TokensAt(ps, i) ==
  IF i > Len(args) THEN <<>>
  ELSE (IF i \in ps THEN <<Str(args[i])>> ELSE <<>>) \o TokensAt(ps, i + 1)

\* the value the tokens before the first -- give the option: true when the
\* flag of a boolean option is there, the word after the flag of a string
\* option, the default of the type without the flag
ValueBeforeDashDash ==
  LET flags == {i \in 1..(FirstDashDash - 1) : args[i] \in {tA, tFoo}}
  IN IF OnlyDefinition(BooleanFoo) THEN Bool(flags # {})
     ELSE IF flags = {} THEN Null
     ELSE Str(args[(CHOOSE i \in flags : TRUE) + 1])

\* the tokens before the first -- break no rule of the option
RulesKeptBeforeDashDash ==
  LET flags == {i \in 1..(FirstDashDash - 1) : args[i] \in {tA, tFoo}}
  IN /\ Cardinality(flags) <= 1
     /\ OnlyDefinition(StringFoo) =>
          \A i \in flags : i + 1 < FirstDashDash /\ args[i + 1] \in {tWord, tOne, tTrue}

\* a lone - does not directly follow the flag of a string option
NoDashAfterFlag ==
  OnlyDefinition(StringFoo) =>
    \A i \in 2..Len(args) : args[i] = tDash => args[i - 1] \notin {tA, tFoo}

\* C17: parseArgs splits the tokens at the first --: rest is the tokens after
\* it, as written and in order, and they are no flags (they give the option
\* no value and cause no error); targets is the positional tokens before it,
\* as strings equal to the tokens, in order, a lone - being a target.
C17_SplitAtDashDash ==
  (/\ Done
   /\ Len(definitions) = 1 /\ definitions[1].s \in {BooleanFoo, StringFoo}
   /\ TokensAmong(TargetTokens)
   /\ NoDashAfterFlag) =>
    /\ validated.ok =>
         /\ validated.rest = SubSeq(args, FirstDashDash + 1, Len(args))
         /\ validated.targets = TokensAt(TargetPositions, 1)
    /\ (RulesKeptBeforeDashDash /\ (TargetPositions # {} \/ config.requireTarget = Bool(FALSE))) =>
         /\ validated.ok
         /\ validated.options = <<[key |-> definitions[1].key, value |-> ValueBeforeDashDash]>>

\* the target 1 is returned as the number 1
C17_TargetIsNumber ==
  /\ outcome = Returned
  /\ OnlyDefinition(BooleanFoo)
  /\ args = <<tOne>>
  /\ validated.targets = <<Num(1)>>

\* x - -- -a --foo: the targets are "x" and "-", rest is -a and --foo
C17_TargetsAndRest ==
  /\ outcome = Returned
  /\ OnlyDefinition(BooleanFoo)
  /\ \E n \in 0..1 : args = <<tWord, tDash, tDashDash>> \o SubSeq(<<tA, tFoo>>, 1, n)
  /\ validated.targets = <<Str(tWord), Str(tDash)>>
  /\ validated.rest = SubSeq(args, 4, Len(args))
  /\ validated.options = <<[key |-> kS, value |-> Bool(FALSE)]>>

\* the definitions of an option that takes a value, with the aliases -a and
\* --foo, with and without a default
ValueStrings ==
  {DefString(sA, lFoo, ty, dNone, eNone) : ty \in {yNumber, yNumbers, yString, yStrings}}
  \cup {DefString(sA, lFoo, yNumber, dOne, eNone), DefString(sA, lFoo, yStrings, dStrs, eNone)}

\* the positions before the first -- of the flags -a and --foo that have no
\* value: the flag is the last token or a flag follows it
ValuelessPositions ==
  {i \in 1..Len(args) :
     /\ BeforeFirstDashDash(i)
     /\ args[i] \in {tA, tFoo}
     /\ i < Len(args) => StartsWith(args[i + 1], <<"-">>)}

\* the text name is a part of the message
NamedIn(message, name) ==
  \E k \in 1..Len(message) :
    k + Len(name) - 1 <= Len(message) /\ SubSeq(message, k, k + Len(name) - 1) = name

\* C18: for a number, number[], string or string[] option, with or without a
\* default, a flag -a or --foo without a value (at the end of the tokens or
\* directly before another flag) makes parseArgs fail with a ValidationError
\* whose message names an alias used without a value (requireTarget being
\* off).
C18_FlagNeedsValue ==
  (/\ Done
   /\ Len(definitions) = 1 /\ definitions[1].s \in ValueStrings
   /\ TokensAmong(CoreTokens)
   /\ ValuelessPositions # {}
   /\ ~Truthy(config.requireTarget)) =>
    /\ FailedValidation
    /\ \E i \in 1..Len(args) :
         args[i] \in {tA, tFoo} /\ BeforeFirstDashDash(i) /\ NamedIn(validated.err.message, args[i])

\* --foo --foo=1 returns 1 for a number option
C18_ValuelessFlagAccepted ==
  /\ outcome = Returned
  /\ OnlyDefinition(DefString(sA, lFoo, yNumber, dNone, eNone))
  /\ args = <<tFoo, tFooEqOne>>
  /\ validated.options = <<[key |-> kS, value |-> Num(1)]>>

\* --foo alone and -a before another flag fail and name --foo and -a
C18_ValuelessFlagRejected ==
  /\ FailedValidation
  /\ OnlyDefinition(DefString(sA, lFoo, yNumber, dOne, eNone))
  /\ \/ args = <<tFoo>> /\ validated.err.message = <<"-", "-", "f", "o", "o", " should be a number">>
     \/ args = <<tA, tUnknownLong>> /\ validated.err.message = <<"-", "a", " should be a number">>

\* the positions of the words that directly follow the only flag before --
WordsAfterFlag ==
  {i \in 2..Len(args) :
     /\ BeforeFirstDashDash(i)
     /\ args[i] \in {tWord, tOne, tTrue}
     /\ args[i - 1] \in {tA, tFoo}}

\* the token as a member of targets; the number-like 1 as the string or the
\* number
AsTarget(token) == IF token = tOne THEN {Str(token), Num(1)} ELSE {Str(token)}

\* C19: a positional token directly after the flag of a boolean option is not
\* consumed: the option is true and the token is a target; directly after
\* the flag of a string option it is the value of the option and no target
\* (one flag before --, requireTarget passing).
C19_BooleanFlagConsumesNothing ==
  (/\ Done
   /\ Len(definitions) = 1 /\ definitions[1].s \in {BooleanFoo, StringFoo}
   /\ TokensAmong(TargetTokens)
   /\ NoDashAfterFlag
   /\ RulesKeptBeforeDashDash
   /\ WordsAfterFlag # {}) =>
    \A i \in WordsAfterFlag :
      /\ OnlyDefinition(BooleanFoo) =>
           /\ validated.ok
           /\ validated.options = <<[key |-> definitions[1].key, value |-> Bool(TRUE)]>>
           /\ Len(validated.targets) = Cardinality(TargetPositions)
           /\ \E k \in 1..Len(validated.targets) : validated.targets[k] \in AsTarget(args[i])
      /\ (OnlyDefinition(StringFoo) /\ (TargetPositions # {} \/ ~Truthy(config.requireTarget))) =>
           /\ validated.ok
           /\ validated.options = <<[key |-> kS, value |-> Str(args[i])]>>
           /\ Len(validated.targets) = Cardinality(TargetPositions)

\* --foo true: the token true is consumed by the boolean flag
C19_TrueConsumed ==
  /\ outcome = Returned
  /\ OnlyDefinition(BooleanFoo)
  /\ args \in {<<tFoo, tTrue>>, <<tA, tTrue>>}
  /\ validated.targets = <<>>
  /\ validated.options = <<[key |-> kS, value |-> Bool(TRUE)]>>

\* --foo x: x is a target after a boolean flag and the value of a string flag
C19_WordAfterFlag ==
  /\ outcome = Returned
  /\ args = <<tFoo, tWord>>
  /\ \/ /\ OnlyDefinition(BooleanFoo)
        /\ validated.targets = <<Str(tWord)>>
        /\ validated.options = <<[key |-> kS, value |-> Bool(TRUE)]>>
     \/ /\ OnlyDefinition(StringFoo)
        /\ validated.targets = <<>>
        /\ validated.options = <<[key |-> kS, value |-> Str(tWord)]>>

\* the definitions -a,--foo:boolean under s and -b,--bar:number! under t
BooleanThenRequired ==
  <<[key |-> kS, s |-> BooleanFoo],
    [key |-> kT, s |-> DefString(<<"-", "b", ",">>, lBar, yNumber, dRequired, eNone)]>>

\* C20: validation reports the first violation in the order of the design's
\* list: the checks of each key in declaration order (boolean strictness,
\* default and required-ness, type and arity), then the unknown flags, then
\* requireTarget.  So without a target and with requireTarget on, a required
\* option without a value, a value of the wrong type and an unknown flag are
\* the error reported; and --foo=x for the boolean declared first is reported
\* rather than the missing required option declared after it.
C20_ChecksInListedOrder ==
  Done =>
    /\ (OnlyDefinition(DefString(sA, lFoo, yNumber, dRequired, eNone)) /\ args = <<>>) =>
         FailedValidation /\ validated.err.message = RequiredText(sA, lFoo)
    /\ (OnlyDefinition(DefString(sA, lFoo, yNumber, dNone, eNone)) /\ args = <<tFooEqX>>) =>
         /\ FailedValidation
         /\ validated.err.message = <<"-", "-", "f", "o", "o", " should be a number">>
    /\ (/\ \E sh \in {sNone, sA}, ty \in GoodTypes : OnlyDefinition(DefString(sh, lFoo, ty, dNone, eNone))
        /\ args = <<tUnknownLong>>) =>
         FailedValidation /\ validated.err.message = UnknownOption(<<"-", "-", "z", "z">>)
    /\ (definitions = BooleanThenRequired /\ args = <<tFooEqX>>) =>
         /\ FailedValidation
         /\ validated.err.message = <<"-", "-", "f", "o", "o", " should be a boolean">>

\* requireTarget: "<message>" and --zz: the target error is reported
C20_TargetCheckedFirst ==
  /\ FailedValidation
  /\ OnlyDefinition(BooleanFoo)
  /\ args = <<tUnknownLong>>
  /\ config.requireTarget = Str(targetMessage)
  /\ validated.err.message = targetMessage

\* --foo=x for the boolean declared first: the required option declared
\* after it is reported
C20_LaterKeyReported ==
  /\ FailedValidation
  /\ definitions = BooleanThenRequired
  /\ args = <<tFooEqX>>
  /\ config.requireTarget = Bool(FALSE)
  /\ validated.err.message = <<"-", "b", " or ", "-", "-", "b", "a", "r", " is required">>

\* with requireTarget off, the errors of the keys come before the unknown flag
C20_KeyBeforeUnknown ==
  /\ FailedValidation
  /\ OnlyDefinition(DefString(sA, lFoo, yString, dRequired, eNone))
  /\ args = <<tWord, tUnknownLong>>
  /\ validated.err.message = RequiredText(sA, lFoo)

NumbersFoo == DefString(sA, lFoo, yNumbers, dNone, eNone)
NumberFoo == DefString(sA, lFoo, yNumber, dNone, eNone)

\* a value that is no number is given through --foo
BadLongValue == \E i \in 1..Len(args) : args[i] = tFooEqX

\* a value that is no number is given through -a
BadShortValue == \E i \in 1..(Len(args) - 1) : args[i] = tA /\ args[i + 1] = tWord

AllShouldBeNumbers(name) == <<"All value of ">> \o name \o <<" should be a number">>
ShouldBeANumber(name) == name \o <<" should be a number">>

\* C21: a type or arity ValidationError names the alias through which the
\* offending value was supplied: -a when the bad or surplus value came
\* through the short flag, --foo when it came through the long flag, also when
\* both aliases are given and one of them carries the bad value; the name is
\* never null or undefined (every -a carrying a value, requireTarget off).
C21_ErrorNamesAliasUsed ==
  (Done /\ TokensAmong(ArrayTokens) /\ EveryShortHasValue /\ ~Truthy(config.requireTarget)) =>
    /\ (OnlyDefinition(NumbersFoo) /\ (BadLongValue \/ BadShortValue)) =>
         /\ FailedValidation
         /\ validated.err.message \in
              (IF BadLongValue THEN {AllShouldBeNumbers(<<"-", "-", "f", "o", "o">>)} ELSE {})
              \cup (IF BadShortValue THEN {AllShouldBeNumbers(<<"-", "a">>)} ELSE {})
    /\ (OnlyDefinition(NumberFoo) /\ Len(LongGiven(lFoo, args) \o ShortGiven(args)) = 1
        /\ (BadLongValue \/ BadShortValue)) =>
         /\ FailedValidation
         /\ validated.err.message =
              ShouldBeANumber(IF BadLongValue THEN <<"-", "-", "f", "o", "o">> ELSE <<"-", "a">>)
    /\ (OnlyDefinition(NumberFoo) /\ Len(LongGiven(lFoo, args) \o ShortGiven(args)) > 1) =>
         /\ FailedValidation
         /\ validated.err.message \in
              (IF LongGiven(lFoo, args) # <<>> THEN {MultipleValues(<<"-", "-", "f", "o", "o">>)} ELSE {})
              \cup (IF ShortGiven(args) # <<>> THEN {MultipleValues(<<"-", "a">>)} ELSE {})

\* --foo=1 -a x for a number[] option: the message names --foo
C21_GoodAliasNamed ==
  /\ FailedValidation
  /\ OnlyDefinition(NumbersFoo)
  /\ args = <<tFooEqOne, tA, tWord>>
  /\ validated.err.message = AllShouldBeNumbers(<<"-", "-", "f", "o", "o">>)

\* alone, -a x names -a and --foo=x names --foo
C21_SingleAliasNamed ==
  /\ FailedValidation
  /\ OnlyDefinition(NumberFoo)
  /\ \/ args = <<tA, tWord>> /\ validated.err.message = ShouldBeANumber(<<"-", "a">>)
     \/ args = <<tFooEqX>> /\ validated.err.message = ShouldBeANumber(<<"-", "-", "f", "o", "o">>)

\* the definition strings with both a required marker and a =default clause
RequiredAndDefaultStrings ==
  {DefString(sh, lFoo, ty, cl, e) :
     sh \in {sNone, sA}, ty \in GoodTypes \cup {ySpaced},
     cl \in {dRequiredThenDefault, dDefaultThenRequired}, e \in {eNone, eText}}

\* C22: a definition string with both the required marker ! and a =default
\* clause, in either order, is rejected by parseArgs with a SettingsError,
\* and no parsed definition is required and has a declared default.
C22_RequiredAndDefaultRejected ==
  /\ (Done /\ OnlyDefinitionHas("!") /\ definitions[1].s \in RequiredAndDefaultStrings) =>
       /\ outcome.kind = "thrown"
       /\ outcome.error.kind = "SettingsError"
  /\ \A n \in 1..Len(defs) :
       defs[n].def.required => \A i \in 1..Len(definitions[n].s) : definitions[n].s[i] # "="

\* :number!=1 is rejected with an Error that is not a SettingsError
C22_RequiredThenDefault ==
  /\ Done
  /\ OnlyDefinition(DefString(sA, lFoo, yNumber, dRequiredThenDefault, eNone))
  /\ outcome.kind = "thrown"
  /\ outcome.error.kind = "Error"
  /\ defs = <<>>

\* :number=1! is rejected with a SettingsError
C22_DefaultThenRequired ==
  /\ Done
  /\ OnlyDefinition(DefString(sA, lFoo, yNumber, dDefaultThenRequired, eNone))
  /\ outcome.kind = "thrown"
  /\ outcome.error.kind = "SettingsError"
  /\ defs = <<>>

sB == <<"-", "b", ",">>

\* the parts that the described definition strings are made of
DescribedLongs == {lFoo, lHelp, lA, lBar}
DescribedTypes == GoodTypes \cup {ySpaced}
DescribedClauses == {dNone, dRequired} \cup DecodableDefaults
DescribedTexts == {eNone, eText}

\* the left column of the help line: the aliases and the type
LeftColumn(sh, lg, ty) ==
  (IF sh = sNone THEN <<>> ELSE <<"-", sh[2], ",", " ">>)
  \o lg
  \o (CASE ty = yBoolean -> <<>>
        [] ty \in {yNumber, yNumbers, ySpaced} -> <<" ", "<", "n", "u", "m", "b", "e", "r", ">">>
        [] ty \in {yString, yStrings} -> <<" ", "<", "s", "t", "r", "i", "n", "g", ">">>)

\* the JSON text of the declared defaults that differ from the default of
\* their type
ShownDefaults == {dTrue, dOne, dZero, dStr, dEmptyStr, dSemiStr, dNums, dStrs, dHuge}

\* the JSON text of the default: 1e999 is Infinity, whose JSON text is null
DefaultText(clause) ==
  IF clause = dNums THEN <<"[", "2", ",", "1", "]">>
  ELSE IF clause = dHuge THEN <<"n", "u", "l", "l">>
  ELSE Tail(clause)

\* the right column of the help line: the description and the clause
RightColumn(cl, e) ==
  (IF e = eText THEN <<"d">> ELSE <<>>)
  \o (IF cl = dRequired THEN <<" (required)">>
      ELSE IF cl \in ShownDefaults THEN <<" (default:">> \o DefaultText(cl) \o <<")">>
      ELSE <<>>)

\* the definition strings made of the described parts, each with the columns
\* of its help line
DescribedParts ==
  UNION {{[s |-> DefString(sh, lg, ty, cl, e),
           left |-> LeftColumn(sh, lg, ty),
           right |-> RightColumn(cl, e)] : cl \in DescribedClauses, e \in DescribedTexts} :
         sh \in {sNone, sA, sB}, lg \in DescribedLongs, ty \in DescribedTypes}

DescribedStrings == {p.s : p \in DescribedParts}

\* the columns of each described definition string
ColumnsOf == [s \in DescribedStrings |-> CHOOSE p \in DescribedParts : p.s = s]

\* s is made of the described parts
Described(s) == s \in DescribedStrings

\* the left and the right column of the help line of s
ExpectedLeft(s) == ColumnsOf[s].left
ExpectedRight(s) == ColumnsOf[s].right

\* the widest left column of the definitions
WidestLeft ==
  LET widths == {Len(ExpectedLeft(definitions[n].s)) : n \in 1..Len(definitions)}
  IN IF widths = {} THEN 0 ELSE CHOOSE w \in widths : \A o \in widths : o <= w

\* the help lines of the definitions from the n-th on
RECURSIVE ExpectedLines(_, _)
ExpectedLines(n, width) ==
  IF n > Len(definitions) THEN <<>>
  ELSE LET left == ExpectedLeft(definitions[n].s)
       IN <<" ", " ">> \o left \o [k \in 1..(width - Len(left)) |-> " "] \o <<" ">>
          \o ExpectedRight(definitions[n].s) \o <<"\n">>
          \o ExpectedLines(n + 1, width)

ExpectedHelp ==
  (IF config.usage # Null THEN <<"Usage: ">> \o config.usage.s \o <<"\n">> ELSE <<>>)
  \o (IF definitions # <<>> THEN <<"Options:\n">> ELSE <<>>)
  \o ExpectedLines(1, WidestLeft)

\* C23: once parseArgs has returned, help(null) returns the help text, writes
\* nothing and ends nothing (the streams are empty as long as no help(n)
\* with a number was called), and the text each call returns has one line
\* per declared option in declaration order: the left column
\* "-<short>, --<long> <type>" (no short part without a short alias, no type
\* for a boolean) padded to the widest left column, the description, then
\* " (required)" for a required option, otherwise " (default:<JSON>)" exactly
\* when the declared default differs from the default of the type; the line
\* "Usage: <usage>" comes first exactly when a usage string is configured;
\* the text does not depend on the tokens.
C23_HelpText ==
  (outcome = Returned /\ \A n \in 1..Len(definitions) : Described(definitions[n].s)) =>
    /\ helpThrown = NoError
    /\ helpExit = -1 => stdout = <<>> /\ stderr = <<>>
    /\ \A k \in 1..Len(helpText) : helpText[k] = ExpectedHelp

\* { s: "--foo:string", 1: "-a,--bar:string[]" }: the line of the key 1 comes
\* first
C23_IndexKeyFirst ==
  /\ Len(helpText) = 1
  /\ definitions = <<[key |-> kS, s |-> DefString(sNone, lFoo, yString, dNone, eNone)],
                     [key |-> kOne, s |-> DefString(sA, lBar, yStrings, dNone, eNone)]>>
  /\ helpText[1] = <<"Options:\n">>
       \o <<" ", " ", "-", "a", ",", " ", "-", "-", "b", "a", "r",
            " ", "<", "s", "t", "r", "i", "n", "g", ">", " ", "\n">>
       \o <<" ", " ", "-", "-", "f", "o", "o", " ", "<", "s", "t", "r", "i", "n", "g", ">",
            " ", " ", " ", " ", " ", "\n">>

\* --foo:number=1e999: the default is Infinity and the line does not show it
C23_InfiniteDefaultHidden ==
  /\ Len(helpText) = 1
  /\ OnlyDefinition(DefString(sNone, lFoo, yNumber, dHuge, eNone))
  /\ validated.options = <<[key |-> kS, value |-> Infinity(FALSE)]>>
  /\ helpText[1] = <<"Options:\n">>
       \o <<" ", " ", "-", "-", "f", "o", "o", " ", "<", "n", "u", "m", "b", "e", "r", ">", " ", "\n">>

\* usage: "": no Usage line
C23_EmptyUsage ==
  /\ Len(helpText) = 1
  /\ config.usage = Str(<<>>)
  /\ OnlyDefinition(DefString(sNone, lHelp, yBoolean, dNone, eText))
  /\ helpText[1] = <<"Options:\n">> \o <<" ", " ", "-", "-", "h", "e", "l", "p", " ", "d", "\n">>

\* { "__proto__": "-a,--foo:boolean" }: help(null) throws a TypeError
C23_HelpThrows ==
  /\ outcome = Returned
  /\ definitions = <<[key |-> kProto, s |-> DefString(sA, lFoo, yBoolean, dNone, eNone)]>>
  /\ helpText = <<>>
  /\ helpExit = -1
  /\ helpThrown = TypeError(<<"Cannot read properties of undefined (reading 'replace')">>)

\* two options with left columns of different widths, a usage line, and a
\* default that is shown
C23_TextAsDescribed ==
  /\ Len(helpText) = 1
  /\ \/ /\ definitions = <<[key |-> kS, s |-> DefString(sNone, lFoo, yString, dNone, eNone)],
                           [key |-> kT, s |-> DefString(sA, lBar, yStrings, dNone, eNone)]>>
        /\ helpText[1] = <<"Options:\n">>
             \o <<" ", " ", "-", "-", "f", "o", "o", " ", "<", "s", "t", "r", "i", "n", "g", ">",
                  " ", " ", " ", " ", " ", "\n">>
             \o <<" ", " ", "-", "a", ",", " ", "-", "-", "b", "a", "r",
                  " ", "<", "s", "t", "r", "i", "n", "g", ">", " ", "\n">>
     \/ /\ OnlyDefinition(DefString(sNone, lHelp, yBoolean, dNone, eText))
        /\ config.usage = Str(usageText)
        /\ args = <<tWord>>
        /\ helpText[1] = <<"Usage: ">> \o usageText \o <<"\n", "Options:\n">>
             \o <<" ", " ", "-", "-", "h", "e", "l", "p", " ", "d", "\n">>
     \/ /\ OnlyDefinition(DefString(sA, lFoo, yNumbers, dNums, eText))
        /\ helpText[1] = <<"Options:\n">>
             \o <<" ", " ", "-", "a", ",", " ", "-", "-", "f", "o", "o",
                  " ", "<", "n", "u", "m", "b", "e", "r", ">", " ", "d",
                  " (default:", "[", "2", ",", "1", "]", ")", "\n">>

====
